---- MODULE Spec2Model ----
(***************************************************************************)
(* gprMax: the per-iteration field-update engine (gprMax/updates.py) and   *)
(* the model-building commands that feed it (gprMax/cmds_multiple.py).     *)
(*                                                                         *)
(* Times are counted in units of the time step (grid.dt = 1).  The fields  *)
(* are represented by the log of the writes made to them (grid.writes):    *)
(* the compiled kernels are outside these files, so a field value is       *)
(* identified with the history of operations that produced it, and the     *)
(* value sampled by a receiver or a snapshot is the length of that log at  *)
(* the moment of capture.                                                  *)
(***************************************************************************)
EXTENDS Integers, Sequences, FiniteSets, TLC

VARIABLES
    phase,      \* "build", "create", "ready", "run", "solved", "finalised", "clean", "aborted"
    grid,       \* the FDTDGrid object G
    config,     \* gprMax.config: materials['maxpoles'], precision, dispersive dtype
    updates,    \* the backend object held by the solver
    device,     \* what CUDAUpdates has placed on the accelerator
    solver,     \* the solver loop: iteration index k and position in the iteration
    calls,      \* backend operations performed so far in the current iteration
    error,      \* the exception raised by the last command or call, if any
    MaterialUser,   \* class attributes of MaterialUser: maxpoles
    PMLCFS,         \* class attributes of PMLCFS: count
    work            \* the work items of the injection phase in progress

vars == <<phase, grid, config, updates, device, solver, calls, error, MaterialUser, PMLCFS,
          work>>

----------------------------------------------------------------------------
(* Bounds of the model *)

MaxIter == 6        \* largest number of iterations of a run
MaxObjs == 2        \* sources + receivers + snapshots added by the commands
MaxPoles == 1       \* largest config.materials['maxpoles']
MaxPmls == 1        \* largest number of PML slabs
MaxCells == 3       \* cells of the domain along each axis
MaxSurfaces == 3    \* fractal surfaces added by the commands of a model

NoGpu == [present |-> FALSE, constmem |-> 0]
NoFunc == <<>>
NoError == [type |-> "none", line |-> 0]
Raise(t, l) == [type |-> t, line |-> l]

\* the cells of the grid a source or receiver may name, and the field
\* components: <<field, cell, axis>>
Coords == {1, 2}
Components == {"E", "H"} \X Coords \X {"x", "y", "z"}

\* no injection phase has run: the fields are at rest
NoWork == [n |-> 0, pc |-> <<>>, local |-> <<>>,
           field |-> [c \in Components |-> 0], start |-> [c \in Components |-> 0]]

Iterations == {1, MaxIter}
TimeWindows(T) == {T - 1, T} \ {0}

Range(s) == {s[i] : i \in DOMAIN s}

----------------------------------------------------------------------------
(* gprMax/cmds_multiple.py: the commands that add sources, receivers and   *)
(* snapshots to the grid                                                   *)

\* names bound at module level in cmds_multiple.py
CmdsGlobals ==
    {"logging", "sys", "np", "config", "UserObjectGeometry", "CmdInputError",
     "GeometryObjectsUser", "MaterialUser", "PeplinskiSoilUser", "CFSParameter",
     "CFS", "RxUser", "SnapshotUser", "VoltageSourceUser", "HertzianDipoleUser",
     "MagneticDipoleUser", "TransmissionLineUser", "SubGridBase", "round_value",
     "WaveformUser", "log"}

NObjs(g) == Len(g.voltagesources) + Len(g.hertziandipoles) + Len(g.magneticdipoles)
            + Len(g.transmissionlines) + Len(g.rxs) + Len(g.snapshots)

\* keyword arguments of a source command; keys holds the optional keys given
TimeArgs ==
    { [keys |-> {}, start |-> 0, stop |-> 0],
      [keys |-> {"start"}, start |-> 2, stop |-> 0],
      [keys |-> {"start", "stop"}, start |-> 2, stop |-> 5],
      [keys |-> {"start", "stop"}, start |-> 0, stop |-> MaxIter + 1],
      [keys |-> {"start", "stop"}, start |-> -1, stop |-> 5],
      [keys |-> {"start", "stop"}, start |-> 2, stop |-> -1],
      [keys |-> {"start", "stop"}, start |-> 5, stop |-> 2] }

Kw(p1, pol, wf, res, t) ==
    [p1 |-> p1, polarisation |-> pol, waveform_known |-> wf, resistance |-> res,
     keys |-> t.keys, start |-> t.start, stop |-> t.stop]

SourceKw ==
    { Kw(1, "x", TRUE, 50, t) : t \in TimeArgs }
    \cup { Kw(1, "q", TRUE, 50, t) : t \in {x \in TimeArgs : x.keys = {}} }
    \cup { Kw(1, "x", FALSE, 50, t) : t \in {x \in TimeArgs : x.keys = {}} }
    \cup { Kw(1, "x", TRUE, r, t) : r \in {-1, 0}, t \in {x \in TimeArgs : x.keys = {}} }

\* the start/stop block shared by the four source commands: a missing key
\* raises KeyError, which selects the defaults
StartStop(kw, g) ==
    IF "start" \notin kw.keys \/ "stop" \notin kw.keys
    THEN [ok |-> TRUE, start |-> 0, stop |-> g.timewindow]
    ELSE IF kw.start < 0 \/ kw.stop < 0 \/ kw.stop - kw.start <= 0
         THEN [ok |-> FALSE, start |-> 0, stop |-> 0]
         ELSE [ok |-> TRUE, start |-> kw.start,
               stop |-> IF kw.stop > g.timewindow THEN g.timewindow ELSE kw.stop]

\* the error raised when the waveform is unknown: building the message reads
\* the name msgname first
MissingWaveform(msgname, line) ==
    IF msgname \in CmdsGlobals \cup {"waveform_id"}
    THEN Raise("CmdInputError", line) ELSE Raise("NameError", line)

\* the source object: cell (uip.check_src_rx_point(p1)), polarisation, start, stop
Source(kw, ss) == [coord |-> kw.p1, polarisation |-> kw.polarisation,
                   start |-> ss.start, stop |-> ss.stop]

VoltageSource_create(kw, g) ==
    LET ss == StartStop(kw, g)
    IN  IF kw.polarisation \notin {"x", "y", "z"} THEN [err |-> Raise("CmdInputError", 150), g |-> g]
        ELSE IF kw.resistance < 0 THEN [err |-> Raise("CmdInputError", 161), g |-> g]
        ELSE IF ~kw.waveform_known THEN [err |-> MissingWaveform("tmp", 165), g |-> g]
        ELSE IF ~ss.ok THEN [err |-> Raise("CmdInputError", 181), g |-> g]
        ELSE [err |-> NoError,
              g |-> [g EXCEPT !.voltagesources = Append(@, Source(kw, ss))]]

HertzianDipole_create(kw, g) ==
    LET ss == StartStop(kw, g)
    IN  IF kw.polarisation \notin {"x", "y", "z"} THEN [err |-> Raise("CmdInputError", 235), g |-> g]
        ELSE IF ~kw.waveform_known THEN [err |-> MissingWaveform("tmp", 247), g |-> g]
        ELSE IF ~ss.ok THEN [err |-> Raise("CmdInputError", 274), g |-> g]
        ELSE [err |-> NoError,
              g |-> [g EXCEPT !.hertziandipoles = Append(@, Source(kw, ss))]]

MagneticDipole_create(kw, g) ==
    LET ss == StartStop(kw, g)
    IN  IF kw.polarisation \notin {"x", "y", "z"} THEN [err |-> Raise("CmdInputError", 331), g |-> g]
        ELSE IF ~kw.waveform_known THEN [err |-> MissingWaveform("waveform_id", 343), g |-> g]
        ELSE IF ~ss.ok THEN [err |-> Raise("CmdInputError", 361), g |-> g]
        ELSE [err |-> NoError,
              g |-> [g EXCEPT !.magneticdipoles = Append(@, Source(kw, ss))]]

\* the resistance test compares with z0, a name nothing binds in the module
TransmissionLine_create(kw, g) ==
    LET ss == StartStop(kw, g)
    IN  IF g.gpu.present THEN [err |-> Raise("CmdInputError", 418), g |-> g]
        ELSE IF kw.polarisation \notin {"x", "y", "z"} THEN [err |-> Raise("CmdInputError", 422), g |-> g]
        ELSE IF kw.resistance <= 0 THEN [err |-> Raise("CmdInputError", 433), g |-> g]
        ELSE IF "z0" \notin CmdsGlobals THEN [err |-> Raise("NameError", 432), g |-> g]
        ELSE IF ~kw.waveform_known THEN [err |-> MissingWaveform("tmp", 437), g |-> g]
        ELSE IF ~ss.ok THEN [err |-> Raise("CmdInputError", 453), g |-> g]
        ELSE [err |-> NoError,
              g |-> [g EXCEPT !.transmissionlines = Append(@, Source(kw, ss))]]

\* receivers.Rx: the output names a receiver may record
Rx_allowableoutputs == {"Ex", "Hz", "Ix"}
Rx_gpu_allowableoutputs == {"Ex", "Hz"}
Rx_defaultoutputs == {"Ex", "Hz"}

RxKw ==
    { [keys |-> k, id |-> "A", outputs |-> <<"Ex">>] : k \in SUBSET {"id", "outputs"} }
    \cup { [keys |-> {"id", "outputs"}, id |-> "A", outputs |-> o] :
              o \in {<<"Ex", "Ix">>, <<"Hz", "Qz">>} }
    \cup { [keys |-> {"outputs"}, id |-> "A", outputs |-> <<"Ix">>] }

\* np.zeros(grid.iterations): sample k of the run is element k + 1
Zeros(n) == [i \in 1..n |-> 0]

Rx_create(kw, g) ==
    LET allowableoutputs == IF g.gpu.present THEN Rx_gpu_allowableoutputs
                            ELSE Rx_allowableoutputs
        default == [ID |-> "Rx(x,y,z)",
                    outputs |-> [f \in Rx_defaultoutputs |-> Zeros(g.iterations)]]
        r == IF "id" \notin kw.keys \/ "outputs" \notin kw.keys
             THEN default
             ELSE [ID |-> kw.id,
                   outputs |-> [f \in Range(kw.outputs) |-> Zeros(g.iterations)]]
    IN  IF "id" \in kw.keys /\ "outputs" \in kw.keys
           /\ \E i \in DOMAIN kw.outputs : kw.outputs[i] \notin allowableoutputs
        THEN [err |-> Raise("CmdInputError", 522), g |-> g]
        ELSE [err |-> NoError, g |-> [g EXCEPT !.rxs = Append(@, r)]]

\* utilities.round_value on a whole number of time steps
round_value(x) == x

\* snapshots.Snapshot(xs, ys, zs, xf, yf, zf, dx, dy, dz, time, filename);
\* dl is the stride <<dx, dy, dz>> in cells (uip.discretise_point)
SnapshotUser(dl, iterations) == [time |-> iterations, dl |-> dl, stored |-> 0, data |-> 0]

SnapshotKw ==
    { [keys |-> {"iterations"}, iterations |-> n, time |-> 0, dl |-> <<1, 1, 1>>] :
          n \in {0, 1, MaxIter - 1, MaxIter, MaxIter + 1} }
    \cup { [keys |-> {"time"}, iterations |-> 0, time |-> t, dl |-> <<1, 1, 1>>] :
          t \in {0, 1, MaxIter} }
    \cup { [keys |-> k, iterations |-> 1, time |-> 1, dl |-> d] :
          k \in {{}, {"time", "iterations"}},
          d \in {<<1, 1, -1>>, <<1, 0, 1>>, <<1, 1, 1>>} }

\* variant: only the stride along x is tested
Snapshot_create_dx(kw, g) ==
    LET iterations == IF "iterations" \in kw.keys THEN kw.iterations
                      ELSE round_value(kw.time \div g.dt) + 1
    IN  IF "iterations" \notin kw.keys /\ "time" \notin kw.keys
        THEN [err |-> Raise("CmdInputError", 649), g |-> g]
        ELSE IF "iterations" \notin kw.keys /\ ~(kw.time > 0)
        THEN [err |-> Raise("CmdInputError", 653), g |-> g]
        ELSE IF kw.dl[1] < 0 THEN [err |-> Raise("CmdInputError", 656), g |-> g]
        ELSE IF kw.dl[1] < 1 THEN [err |-> Raise("CmdInputError", 658), g |-> g]
        ELSE IF iterations <= 0 \/ iterations > g.iterations
        THEN [err |-> Raise("CmdInputError", 660), g |-> g]
        ELSE [err |-> NoError,
              g |-> [g EXCEPT !.snapshots = Append(@, SnapshotUser(kw.dl, iterations))]]

Snapshot_create(kw, g) ==
    LET iterations == IF "iterations" \in kw.keys THEN kw.iterations
                      ELSE round_value(kw.time \div g.dt) + 1
    IN  IF "iterations" \notin kw.keys /\ "time" \notin kw.keys
        THEN [err |-> Raise("CmdInputError", 649), g |-> g]
        ELSE IF "iterations" \notin kw.keys /\ ~(kw.time > 0)
        THEN [err |-> Raise("CmdInputError", 653), g |-> g]
        ELSE IF \E a \in 1..3 : kw.dl[a] < 0
        THEN [err |-> Raise("CmdInputError", 656), g |-> g]
        ELSE IF \E a \in 1..3 : kw.dl[a] < 1
        THEN [err |-> Raise("CmdInputError", 658), g |-> g]
        ELSE IF iterations <= 0 \/ iterations > g.iterations
        THEN [err |-> Raise("CmdInputError", 660), g |-> g]
        ELSE [err |-> NoError,
              g |-> [g EXCEPT !.snapshots = Append(@, SnapshotUser(kw.dl, iterations))]]

----------------------------------------------------------------------------
(* gprMax/cmds_multiple.py: materials and their dispersive properties      *)

\* float('inf'): larger than every other conductivity of the model
Inf == 1000000

\* materials.Material(numID, ID): the object as its constructor leaves it
Material_new(numID, ID) ==
    [numID |-> numID, ID |-> ID, er |-> 1, se |-> 0, mr |-> 1, sm |-> 0,
     type |-> "", poles |-> 0, averagable |-> TRUE,
     deltaer |-> <<>>, tau |-> <<>>, alpha |-> <<>>]

\* the materials every grid starts with: pec and free_space
BuiltinMaterials ==
    << [Material_new(0, "pec") EXCEPT !.se = Inf, !.type = "builtin", !.averagable = FALSE],
       [Material_new(1, "free_space") EXCEPT !.type = "builtin"] >>

MaterialKw ==
    { [complete |-> TRUE, er |-> 1, se |-> se, mr |-> 1, sm |-> 0, id |-> id] :
          se \in {0, Inf}, id \in {"a", "b"} }
    \cup { [complete |-> TRUE, er |-> 1, se |-> 0, mr |-> 1, sm |-> 0, id |-> "pec"],
           [complete |-> FALSE, er |-> 1, se |-> 0, mr |-> 1, sm |-> 0, id |-> "a"],
           [complete |-> TRUE, er |-> 0, se |-> 0, mr |-> 1, sm |-> 0, id |-> "a"],
           [complete |-> TRUE, er |-> 1, se |-> -1, mr |-> 1, sm |-> 0, id |-> "a"],
           [complete |-> TRUE, er |-> 1, se |-> 0, mr |-> 0, sm |-> 0, id |-> "a"],
           [complete |-> TRUE, er |-> 1, se |-> 0, mr |-> 1, sm |-> -1, id |-> "a"] }

\* variant: the identifier is not compared with those of the list
Material_create_anyid(kw, g) ==
    LET m == [Material_new(Len(g.materials), kw.id) EXCEPT
                  !.er = kw.er, !.se = kw.se, !.mr = kw.mr, !.sm = kw.sm,
                  !.averagable = IF kw.se = Inf THEN FALSE ELSE @]
    IN  IF ~kw.complete THEN [err |-> Raise("CmdInputError", 700), g |-> g]
        ELSE IF kw.er < 1 THEN [err |-> Raise("CmdInputError", 703), g |-> g]
        ELSE IF kw.se # Inf /\ kw.se < 0 THEN [err |-> Raise("CmdInputError", 707), g |-> g]
        ELSE IF kw.mr < 1 THEN [err |-> Raise("CmdInputError", 711), g |-> g]
        ELSE IF kw.sm < 0 THEN [err |-> Raise("CmdInputError", 713), g |-> g]
        ELSE [err |-> NoError, g |-> [g EXCEPT !.materials = Append(@, m)]]

Material_create(kw, g) ==
    LET m == [Material_new(Len(g.materials), kw.id) EXCEPT
                  !.er = kw.er, !.se = kw.se, !.mr = kw.mr, !.sm = kw.sm,
                  !.averagable = IF kw.se = Inf THEN FALSE ELSE @]
    IN  IF ~kw.complete THEN [err |-> Raise("CmdInputError", 700), g |-> g]
        ELSE IF kw.er < 1 THEN [err |-> Raise("CmdInputError", 703), g |-> g]
        ELSE IF kw.se # Inf /\ kw.se < 0 THEN [err |-> Raise("CmdInputError", 707), g |-> g]
        ELSE IF kw.mr < 1 THEN [err |-> Raise("CmdInputError", 711), g |-> g]
        ELSE IF kw.sm < 0 THEN [err |-> Raise("CmdInputError", 713), g |-> g]
        ELSE IF \E i \in DOMAIN g.materials : g.materials[i].ID = kw.id
        THEN [err |-> Raise("CmdInputError", 715), g |-> g]
        ELSE [err |-> NoError, g |-> [g EXCEPT !.materials = Append(@, m)]]

\* per-pole parameter lists of a dispersion command with p poles: all valid,
\* the last one replaced by v, or one entry short
Good(p) == [i \in 1..p |-> 2]
BadLast(p, v) == [i \in 1..p |-> IF i = p THEN v ELSE 2]

DKw(c, p, e, t, a, ids) ==
    [complete |-> c, n_poles |-> p, er_delta |-> e, tau |-> t, alpha |-> a,
     material_ids |-> ids]

DispersionKw ==
    { DKw(TRUE, p, Good(p), Good(p), Good(p), <<"a">>) : p \in {0, 1, 2} }
    \cup { DKw(TRUE, 1, <<2>>, <<2>>, <<2>>, ids) : ids \in {<<"a", "a">>, <<"a", "b">>, <<"zz">>} }
    \cup { DKw(TRUE, 2, BadLast(2, 0), BadLast(2, 0), BadLast(2, 0), <<"a">>),
           DKw(TRUE, 1, <<1>>, <<1>>, <<1>>, <<"a">>),
           DKw(TRUE, 1, <<2>>, <<2>>, <<0>>, <<"a">>),
           DKw(TRUE, 1, <<0>>, <<2>>, <<2>>, <<"a">>),
           DKw(TRUE, 2, <<2>>, <<2>>, <<2>>, <<"a">>),
           DKw(TRUE, -1, <<>>, <<>>, <<>>, <<"a">>),
           DKw(FALSE, 1, <<2>>, <<2>>, <<2>>, <<"a">>) }

\* [y for x in material_ids for y in grid.materials if y.ID == x], as positions
RECURSIVE Lookup(_, _)
Lookup(material_ids, g) ==
    IF material_ids = <<>> THEN <<>>
    ELSE SelectSeq([i \in DOMAIN g.materials |-> i],
                   LAMBDA i : g.materials[i].ID = Head(material_ids))
         \o Lookup(Tail(material_ids), g)

\* pole i (from 1) of a command: the exception its test raises, or none
PoleError(kind, kw, i, dt) ==
    CASE kind = "debye" ->
           IF i > Len(kw.tau) THEN Raise("IndexError", 777)
           ELSE IF ~(kw.tau[i] > 0) THEN Raise("CmdInputError", 781)
           ELSE IF i > Len(kw.er_delta) THEN Raise("IndexError", 778)
           ELSE NoError
      [] kind = "lorentz" ->
           IF i > Len(kw.er_delta) THEN Raise("IndexError", 833)
           ELSE IF ~(kw.er_delta[i] > 0) THEN Raise("CmdInputError", 838)
           ELSE IF i > Len(kw.tau) THEN Raise("IndexError", 833)
           ELSE IF ~(kw.tau[i] > dt) THEN Raise("CmdInputError", 838)
           ELSE IF i > Len(kw.alpha) THEN Raise("IndexError", 833)
           ELSE IF ~(kw.alpha[i] > dt) THEN Raise("CmdInputError", 838)
           ELSE NoError
      [] kind = "drude" ->
           IF i > Len(kw.tau) THEN Raise("IndexError", 887)
           ELSE IF ~(kw.tau[i] > 0) THEN Raise("CmdInputError", 891)
           ELSE IF i > Len(kw.alpha) THEN Raise("IndexError", 887)
           ELSE IF ~(kw.alpha[i] > dt) THEN Raise("CmdInputError", 891)
           ELSE NoError

\* the lists pole i is appended to
AppendPole(kind, m, kw, i) ==
    CASE kind = "debye" ->
           [m EXCEPT !.deltaer = Append(@, kw.er_delta[i]), !.tau = Append(@, kw.tau[i])]
      [] kind = "lorentz" ->
           [m EXCEPT !.deltaer = Append(@, kw.er_delta[i]), !.tau = Append(@, kw.tau[i]),
                     !.alpha = Append(@, kw.alpha[i])]
      [] kind = "drude" ->
           [m EXCEPT !.tau = Append(@, kw.tau[i]), !.alpha = Append(@, kw.alpha[i])]

\* for i in range(0, poles): poles i..n_poles of one material
RECURSIVE AddPoles(_, _, _, _, _)
AddPoles(kind, m, kw, i, dt) ==
    IF i > kw.n_poles THEN [err |-> NoError, m |-> m]
    ELSE IF PoleError(kind, kw, i, dt) # NoError
         THEN [err |-> PoleError(kind, kw, i, dt), m |-> m]
         ELSE AddPoles(kind, AppendPole(kind, m, kw, i), kw, i + 1, dt)

\* for material in materials: the materials from position j of the list on
RECURSIVE AddDispersion(_, _, _, _, _, _)
AddDispersion(kind, kw, found, j, g, maxpoles) ==
    IF j > Len(found) THEN [err |-> NoError, g |-> g, maxpoles |-> maxpoles]
    ELSE LET n == found[j]
             m1 == [g.materials[n] EXCEPT !.type = kind, !.poles = kw.n_poles,
                                          !.averagable = FALSE]
             r == AddPoles(kind, m1, kw, 1, g.dt)
             g1 == [g EXCEPT !.materials[n] = r.m]
         IN  IF r.err # NoError THEN [err |-> r.err, g |-> g1, maxpoles |-> maxpoles]
             ELSE AddDispersion(kind, kw, found, j + 1, g1,
                                IF r.m.poles > maxpoles THEN r.m.poles ELSE maxpoles)

\* variant: only the conductivity decides whether a material is averagable
Dispersion_create_averagable(kind, first, kw, g, maxpoles) ==
    IF ~kw.complete THEN [err |-> Raise("CmdInputError", first), g |-> g, maxpoles |-> maxpoles]
    ELSE IF kw.n_poles < 0
    THEN [err |-> Raise("CmdInputError", first + 3), g |-> g, maxpoles |-> maxpoles]
    ELSE IF Len(Lookup(kw.material_ids, g)) # Len(kw.material_ids)
    THEN [err |-> Raise("CmdInputError", first + 10), g |-> g, maxpoles |-> maxpoles]
    ELSE LET r == AddDispersion(kind, kw, Lookup(kw.material_ids, g), 1, g, maxpoles)
         IN  [r EXCEPT !.g.materials =
                 [i \in DOMAIN r.g.materials |->
                     [r.g.materials[i] EXCEPT !.averagable = (r.g.materials[i].se # Inf)]]]

\* the body shared by the three commands; first is the line of the first raise
Dispersion_create(kind, first, kw, g, maxpoles) ==
    IF ~kw.complete THEN [err |-> Raise("CmdInputError", first), g |-> g, maxpoles |-> maxpoles]
    ELSE IF kw.n_poles < 0
    THEN [err |-> Raise("CmdInputError", first + 3), g |-> g, maxpoles |-> maxpoles]
    ELSE IF Len(Lookup(kw.material_ids, g)) # Len(kw.material_ids)
    THEN [err |-> Raise("CmdInputError", first + 10), g |-> g, maxpoles |-> maxpoles]
    ELSE AddDispersion(kind, kw, Lookup(kw.material_ids, g), 1, g, maxpoles)

AddDebyeDispersion_create(kw, g, maxpoles) == Dispersion_create("debye", 759, kw, g, maxpoles)
AddLorentzDispersion_create(kw, g, maxpoles) == Dispersion_create("lorentz", 816, kw, g, maxpoles)
AddDrudeDispersion_create(kw, g, maxpoles) == Dispersion_create("drude", 870, kw, g, maxpoles)

----------------------------------------------------------------------------
(* gprMax/cmds_multiple.py: the CFS parameters of the PML                  *)

\* pml.CFSParameter: the scaling profiles and directions it knows
CFSParameter_scalingprofiles == {"constant", "linear", "quadratic"}
CFSParameter_scalingdirections == {"forward", "reverse"}

CfsKw(c, prof, dir, amin, kmin, smin, smax, snone) ==
    [complete |-> c,
     alphascalingprofile |-> "constant", alphascalingdirection |-> "forward",
     alphamin |-> amin, alphamax |-> 0,
     kappascalingprofile |-> prof, kappascalingdirection |-> dir,
     kappamin |-> kmin, kappamax |-> 1,
     sigmascalingprofile |-> "quadratic", sigmascalingdirection |-> "forward",
     sigmamin |-> smin, sigmamax |-> smax, sigmamax_none |-> snone]

PMLCFSKw ==
    { CfsKw(TRUE, "constant", "forward", 0, 1, 0, 0, TRUE),
      CfsKw(TRUE, "linear", "reverse", 0, 2, 0, 3, FALSE),
      CfsKw(FALSE, "constant", "forward", 0, 1, 0, 0, TRUE),
      CfsKw(TRUE, "cubic", "forward", 0, 1, 0, 0, TRUE),
      CfsKw(TRUE, "constant", "sideways", 0, 1, 0, 0, TRUE),
      CfsKw(TRUE, "constant", "forward", -1, 1, 0, 0, TRUE),
      CfsKw(TRUE, "constant", "forward", 0, 0, 0, 0, TRUE),
      CfsKw(TRUE, "constant", "forward", 0, 1, -1, 0, TRUE),
      CfsKw(TRUE, "constant", "forward", 0, 1, 0, -1, FALSE) }

\* PMLCFS.__init__: counts the objects constructed in the process
PMLCFS_init(cls) ==
    [err |-> IF cls.count + 1 = 2 THEN Raise("CmdInputError", 1113) ELSE NoError,
     cls |-> [cls EXCEPT !.count = @ + 1]]

CFSPart(id, profile, direction, min, max, none) ==
    [ID |-> id, scalingprofile |-> profile, scalingdirection |-> direction,
     min |-> min, max |-> max, max_none |-> none]

PMLCFS_create(kw, g) ==
    LET cfs == [alpha |-> CFSPart("alpha", kw.alphascalingprofile, kw.alphascalingdirection,
                                  kw.alphamin, kw.alphamax, FALSE),
                kappa |-> CFSPart("kappa", kw.kappascalingprofile, kw.kappascalingdirection,
                                  kw.kappamin, kw.kappamax, FALSE),
                sigma |-> CFSPart("sigma", kw.sigmascalingprofile, kw.sigmascalingdirection,
                                  kw.sigmamin, IF kw.sigmamax_none THEN 0 ELSE kw.sigmamax,
                                  kw.sigmamax_none)]
    IN  IF ~kw.complete THEN [err |-> Raise("CmdInputError", 1130), g |-> g]
        ELSE IF {kw.alphascalingprofile, kw.kappascalingprofile, kw.sigmascalingprofile}
                    \ CFSParameter_scalingprofiles # {}
        THEN [err |-> Raise("CmdInputError", 1133), g |-> g]
        ELSE IF {kw.alphascalingdirection, kw.kappascalingdirection, kw.sigmascalingdirection}
                    \ CFSParameter_scalingdirections # {}
        THEN [err |-> Raise("CmdInputError", 1135), g |-> g]
        ELSE IF kw.alphamin < 0 \/ kw.alphamax < 0 \/ kw.kappamin < 0 \/ kw.kappamax < 0
                \/ kw.sigmamin < 0
        THEN [err |-> Raise("CmdInputError", 1137), g |-> g]
        ELSE IF kw.kappamin < 1 THEN [err |-> Raise("CmdInputError", 1139), g |-> g]
        \* the log message formats cfssigma.max with :g, which None does not accept
        ELSE IF kw.sigmamax_none THEN [err |-> Raise("TypeError", 1167), g |-> g]
        ELSE [err |-> NoError, g |-> [g EXCEPT !.cfs = Append(@, cfs)]]

----------------------------------------------------------------------------
(* Attribute lookup on the backend object: an instance attribute hides the *)
(* method of the same name                                                 *)

CPUUpdates_methods ==
    {"__init__", "store_outputs", "store_snapshots", "update_magnetic",
     "update_magnetic_pml", "update_magnetic_sources", "update_electric_a",
     "update_electric_pml", "update_electric_sources", "update_electric_b",
     "adapt_dispersive_config", "set_dispersive_updates", "time_start",
     "calculate_tsolve", "finalise", "cleanup"}

CUDAUpdates_methods ==
    {"__init__", "set_field_kernels", "set_pml_kernels", "set_rx_kernel",
     "set_src_kernels", "set_snapshot_kernel", "copy_mat_coeffs",
     "store_outputs", "store_snapshots", "update_magnetic",
     "update_magnetic_pml", "update_magnetic_sources", "update_electric_a",
     "update_electric_pml", "update_electric_sources", "update_electric_b",
     "time_start", "calculate_tsolve", "finalise", "cleanup"}

ClassMethods(class) ==
    IF class = "CPUUpdates" THEN CPUUpdates_methods
    ELSE IF class = "CUDAUpdates" THEN CUDAUpdates_methods ELSE {}

Resolve(u, name) ==
    IF name \in u.attrs THEN "attribute"
    ELSE IF name \in ClassMethods(u.class) THEN "method"
    ELSE "AttributeError"

NoUpdates == [class |-> "none", attrs |-> {},
              dispersive_update_a |-> NoFunc, dispersive_update_b |-> NoFunc]

----------------------------------------------------------------------------
(* gprMax/updates.py: CPUUpdates                                           *)

W(op, who, idx, it) == [op |-> op, who |-> who, idx |-> idx, it |-> it]

\* a source contributes when start <= t < stop, t = iteration * dt
Active(src, iteration, g) ==
    src.start <= iteration * g.dt /\ iteration * g.dt < src.stop

Tagged(list, kind) ==
    [i \in 1..Len(list) |-> [kind |-> kind, idx |-> i,
                             start |-> list[i].start, stop |-> list[i].stop]]

\* source.update_magnetic / source.update_electric for each source in turn
RECURSIVE SourceWrites(_, _, _, _)
SourceWrites(sources, iteration, op, g) ==
    IF sources = <<>> THEN <<>>
    ELSE LET s == Head(sources)
         IN  (IF Active(s, iteration, g) THEN <<W(op, s.kind, s.idx, iteration)>> ELSE <<>>)
             \o SourceWrites(Tail(sources), iteration, op, g)

PmlWrites(op, n) == [i \in 1..n |-> W(op, "pml", i, -1)]

CPUUpdates_init(G) ==
    [class |-> "CPUUpdates",
     attrs |-> {"grid", "dispersive_update_a", "dispersive_update_b"},
     dispersive_update_a |-> NoFunc, dispersive_update_b |-> NoFunc]

adapt_dispersive_config(cfg) ==
    [poles |-> IF cfg.maxpoles > 1 THEN "multi" ELSE "1",
     precision |-> IF cfg.precision = "single" THEN "float" ELSE "double",
     dispersion_type |-> IF cfg.dispersivedtype = "complex" THEN "complex" ELSE "real"]

\* variant: only the first half of the dispersive update is bound
set_dispersive_updates_half(u, props) ==
    [u EXCEPT !.dispersive_update_a =
                  <<"update_electric_dispersive", props.poles, "A",
                    props.precision, props.dispersion_type>>]

set_dispersive_updates(u, props) ==
    [u EXCEPT !.dispersive_update_a =
                  <<"update_electric_dispersive", props.poles, "A",
                    props.precision, props.dispersion_type>>,
              !.dispersive_update_b =
                  <<"update_electric_dispersive", props.poles, "B",
                    props.precision, props.dispersion_type>>]

\* fields_outputs.store_outputs(G): one sample per receiver output, stored at
\* the position given by the grid's iteration counter
store_outputs(g) ==
    LET iteration == g.iteration
        sample == Len(g.writes)
        put(buf) == IF iteration + 1 \in DOMAIN buf
                    THEN [buf EXCEPT ![iteration + 1] = sample] ELSE buf
    IN  [g EXCEPT !.rxs = [i \in DOMAIN g.rxs |->
                              [g.rxs[i] EXCEPT !.outputs =
                                  [f \in DOMAIN g.rxs[i].outputs |->
                                      put(g.rxs[i].outputs[f])]]],
                  !.rxidx = IF g.rxs = <<>> THEN @ ELSE Append(@, iteration)]

CPUUpdates_store_outputs(g) == store_outputs(g)

\* snap.store(G): copy the field values as they stand
Snapshot_store(snap, g) ==
    [snap EXCEPT !.stored = @ + 1, !.data = Len(g.writes)]

\* variant: compares the target with the index itself
CPUUpdates_store_snapshots_sameindex(g, iteration) ==
    [g EXCEPT !.snapshots = [i \in DOMAIN g.snapshots |->
                                IF g.snapshots[i].time = iteration
                                THEN Snapshot_store(g.snapshots[i], g)
                                ELSE g.snapshots[i]]]

CPUUpdates_store_snapshots(g, iteration) ==
    [g EXCEPT !.snapshots = [i \in DOMAIN g.snapshots |->
                                IF g.snapshots[i].time = iteration + 1
                                THEN Snapshot_store(g.snapshots[i], g)
                                ELSE g.snapshots[i]]]

CPUUpdates_update_magnetic(g) ==
    [g EXCEPT !.writes = Append(@, W(<<"update_magnetic">>, "", 0, -1))]

CPUUpdates_update_magnetic_pml(g) ==
    [g EXCEPT !.writes = @ \o PmlWrites(<<"update_magnetic">>, g.pmls)]

\* variant: passes the number of the next iteration
CPUUpdates_update_magnetic_sources_next(g) ==
    [g EXCEPT !.writes = @ \o SourceWrites(
        Tagged(g.transmissionlines, "TransmissionLine")
        \o Tagged(g.magneticdipoles, "MagneticDipole"),
        g.iteration + 1, <<"update_magnetic">>, g)]

CPUUpdates_update_magnetic_sources(g) ==
    [g EXCEPT !.writes = @ \o SourceWrites(
        Tagged(g.transmissionlines, "TransmissionLine")
        \o Tagged(g.magneticdipoles, "MagneticDipole"),
        g.iteration, <<"update_magnetic">>, g)]

\* the function update_electric_a calls; calling None raises TypeError
CPUUpdates_electric_a_function(u, cfg) ==
    IF cfg.maxpoles = 0 THEN <<"update_electric">> ELSE u.dispersive_update_a

CPUUpdates_update_electric_a(g, u, cfg) ==
    [g EXCEPT !.writes = Append(@, W(CPUUpdates_electric_a_function(u, cfg), "", 0, -1))]

\* variant: applies the magnetic correction of the slabs
CPUUpdates_update_electric_pml_magnetic(g) ==
    [g EXCEPT !.writes = @ \o PmlWrites(<<"update_magnetic">>, g.pmls)]

CPUUpdates_update_electric_pml(g) ==
    [g EXCEPT !.writes = @ \o PmlWrites(<<"update_electric">>, g.pmls)]

\* variant: the counter is advanced inside the loop over the sources
CPUUpdates_update_electric_sources_inloop(g) ==
    [g EXCEPT !.writes = @ \o SourceWrites(
        Tagged(g.voltagesources, "VoltageSource")
        \o Tagged(g.transmissionlines, "TransmissionLine")
        \o Tagged(g.hertziandipoles, "HertzianDipole"),
        g.iteration, <<"update_electric">>, g),
              !.iteration = @ + Len(g.voltagesources) + Len(g.transmissionlines)
                              + Len(g.hertziandipoles)]

\* variant: the Hertzian dipoles are visited first
CPUUpdates_update_electric_sources_hertzianfirst(g) ==
    [g EXCEPT !.writes = @ \o SourceWrites(
        Tagged(g.hertziandipoles, "HertzianDipole")
        \o Tagged(g.voltagesources, "VoltageSource")
        \o Tagged(g.transmissionlines, "TransmissionLine"),
        g.iteration, <<"update_electric">>, g),
              !.iteration = @ + 1]

CPUUpdates_update_electric_sources(g) ==
    [g EXCEPT !.writes = @ \o SourceWrites(
        Tagged(g.voltagesources, "VoltageSource")
        \o Tagged(g.transmissionlines, "TransmissionLine")
        \o Tagged(g.hertziandipoles, "HertzianDipole"),
        g.iteration, <<"update_electric">>, g),
              !.iteration = @ + 1]

\* the function update_electric_b calls, NoFunc when it calls nothing
CPUUpdates_electric_b_function(u, cfg) ==
    IF cfg.maxpoles # 0 THEN u.dispersive_update_b ELSE NoFunc

\* variant: the second half runs whatever maxpoles is
CPUUpdates_update_electric_b_always(g, u, cfg) ==
    [g EXCEPT !.writes = Append(@, W(u.dispersive_update_b, "", 0, -1))]

CPUUpdates_update_electric_b(g, u, cfg) ==
    IF cfg.maxpoles # 0
    THEN [g EXCEPT !.writes = Append(@, W(CPUUpdates_electric_b_function(u, cfg), "", 0, -1))]
    ELSE g

----------------------------------------------------------------------------
(* gprMax/cmds_geometry/add_surface_roughness.py: AddSurfaceRoughness      *)

\* fractal_box.FractalBox: a box of cells lo..hi with its list of surfaces
FractalBox(id, lo, hi) ==
    [ID |-> id, xs |-> lo[1], xf |-> hi[1], ys |-> lo[2], yf |-> hi[2],
     zs |-> lo[3], zf |-> hi[3], fractalsurfaces |-> <<>>]

\* the fractal boxes of a model
FractalVolumes ==
    << FractalBox("box", <<1, 1, 1>>, <<2, 2, 2>>),
       FractalBox("slab", <<0, 0, 0>>, <<MaxCells, MaxCells, 1>>) >>

SKw(c, p1, p2, fd, w, lim, id) ==
    [complete |-> c, p1 |-> p1, p2 |-> p2, frac_dim |-> fd, weighting |-> w,
     limits |-> lim, fractal_box_id |-> id]

\* the corners of a rectangle across axis a at coordinate c, from lo to hi
\* along the other two axes
Corner(a, c, v) == [i \in 1..3 |-> IF i = a THEN c ELSE v]

SurfaceKw ==
    { SKw(TRUE, Corner(a, c, e[1]), Corner(a, c, e[2]), 1, <<1, 1>>, <<1, 2>>, "box") :
         a \in 1..3, c \in {0, 1, 2}, e \in {<<1, 2>>, <<0, 1>>} }
    \cup { SKw(TRUE, Corner(1, c, 1), Corner(1, c, 2), 1, <<1, 1>>, lim, "box") :
         c \in {1, 2}, lim \in {<<0, 2>>, <<1, 3>>, <<-1, 2>>} }
    \cup { SKw(TRUE, Corner(3, c, 0), Corner(3, c, MaxCells), 1, <<1, 1>>, <<1, 1>>, "slab") :
         c \in {0, 1} }
    \cup { SKw(TRUE, <<1, 1, 1>>, <<1, 2, 2>>, fd, w, <<1, 2>>, id) :
         fd \in {-1, 0}, w \in {<<1, 1>>, <<-1, 1>>, <<1, -1>>}, id \in {"box", "rock"} }
    \cup { SKw(TRUE, <<1, 1, 1>>, <<2, 2, 2>>, 1, <<1, 1>>, <<1, 2>>, "box"),
           SKw(TRUE, <<1, 1, 1>>, <<1, 1, 2>>, 1, <<1, 1>>, <<1, 2>>, "box"),
           SKw(TRUE, <<1, 1, 1>>, <<2, 1, 1>>, 1, <<1, 1>>, <<1, 2>>, "box"),
           SKw(TRUE, <<1, 2, 1>>, <<1, 1, 2>>, 1, <<1, 1>>, <<1, 2>>, "box"),
           SKw(TRUE, <<1, 1, 1>>, <<1, 2, MaxCells + 1>>, 1, <<1, 1>>, <<1, 2>>, "box"),
           SKw(FALSE, <<1, 1, 1>>, <<1, 2, 2>>, 1, <<1, 1>>, <<1, 2>>, "box") }

\* uip.check_box_points: both points in the domain, the lower one not above
\* the upper one
check_box_points(p1, p2, g) ==
    /\ \A i \in 1..3 : 0 <= p1[i] /\ p2[i] <= <<g.nx, g.ny, g.nz>>[i]
    /\ \A i \in 1..3 : p1[i] <= p2[i]

NoFace == [err |-> NoError, requestedsurface |-> "", fractalrange |-> <<0, 0>>]

\* one branch of the orientation test: the surface has s = f along an axis
\* on which the box spans vs..vf and the domain n cells; degenerate tells
\* whether it is flat along another axis too, first is the line of the
\* first raise of the branch
Orientation(degenerate, s, f, vs, vf, n, fractalrange, names, first) ==
    IF degenerate THEN [NoFace EXCEPT !.err = Raise("CmdInputError", first)]
    ELSE IF s # vs /\ s # vf THEN [NoFace EXCEPT !.err = Raise("CmdInputError", first + 2)]
    ELSE IF s = vs
    THEN IF fractalrange[1] < 0 \/ fractalrange[2] > vf
         THEN [NoFace EXCEPT !.err = Raise("CmdInputError", first + 7)]
         ELSE [err |-> NoError, requestedsurface |-> names[1], fractalrange |-> fractalrange]
    ELSE IF f = vf
    THEN IF fractalrange[1] < vs \/ fractalrange[2] > n
         THEN [NoFace EXCEPT !.err = Raise("CmdInputError", first + 12)]
         ELSE [err |-> NoError, requestedsurface |-> names[2], fractalrange |-> fractalrange]
    ELSE [NoFace EXCEPT !.err = Raise("UnboundLocalError", 148)]

FractalRange(limits, d) == <<round_value(limits[1] \div d), round_value(limits[2] \div d)>>

\* fractals.FractalSurface(xs, xf, ys, yf, zs, zf, dimension)
FractalSurface(xs, xf, ys, yf, zs, zf, dimension) ==
    [xs |-> xs, xf |-> xf, ys |-> ys, yf |-> yf, zs |-> zs, zf |-> zf,
     dimension |-> dimension, surfaceID |-> "", fractalrange |-> <<0, 0>>,
     operatingonID |-> "", weighting |-> <<0, 0>>]

AddSurfaceRoughness_create(kw, g) ==
    LET volumes == {i \in DOMAIN g.fractalvolumes :
                       g.fractalvolumes[i].ID = kw.fractal_box_id}
        n == CHOOSE i \in volumes : \A j \in volumes : i <= j
        volume == g.fractalvolumes[n]
        xs == kw.p1[1]
        ys == kw.p1[2]
        zs == kw.p1[3]
        xf == kw.p2[1]
        yf == kw.p2[2]
        zf == kw.p2[3]
        face == IF xs = xf
                THEN Orientation(ys = yf \/ zs = zf, xs, xf, volume.xs, volume.xf, g.nx,
                                 FractalRange(kw.limits, g.dx), <<"xminus", "xplus">>, 95)
                ELSE IF ys = yf
                THEN Orientation(xs = xf \/ zs = zf, ys, yf, volume.ys, volume.yf, g.ny,
                                 FractalRange(kw.limits, g.dy), <<"yminus", "yplus">>, 112)
                ELSE IF zs = zf
                THEN Orientation(xs = xf \/ ys = yf, zs, zf, volume.zs, volume.zf, g.nz,
                                 FractalRange(kw.limits, g.dz), <<"zminus", "zplus">>, 129)
                ELSE [NoFace EXCEPT !.err = Raise("CmdInputError", 145)]
        surface == [FractalSurface(xs, xf, ys, yf, zs, zf, kw.frac_dim)
                      EXCEPT !.surfaceID = face.requestedsurface,
                             !.fractalrange = face.fractalrange,
                             !.operatingonID = volume.ID,
                             !.weighting = kw.weighting]
        existingsurfaceIDs == {volume.fractalsurfaces[i].surfaceID :
                                  i \in DOMAIN volume.fractalsurfaces}
    IN  IF ~kw.complete THEN [err |-> Raise("CmdInputError", 67), g |-> g]
        ELSE IF volumes = {} THEN [err |-> Raise("CmdInputError", 79), g |-> g]
        ELSE IF ~check_box_points(kw.p1, kw.p2, g)
        THEN [err |-> Raise("CmdInputError", 81), g |-> g]
        ELSE IF kw.frac_dim < 0 THEN [err |-> Raise("CmdInputError", 86), g |-> g]
        ELSE IF kw.weighting[1] < 0 THEN [err |-> Raise("CmdInputError", 88), g |-> g]
        ELSE IF kw.weighting[2] < 0 THEN [err |-> Raise("CmdInputError", 90), g |-> g]
        ELSE IF face.err # NoError THEN [err |-> face.err, g |-> g]
        ELSE IF surface.surfaceID \in existingsurfaceIDs
        THEN [err |-> Raise("CmdInputError", 157), g |-> g]
        ELSE [err |-> NoError,
              g |-> [g EXCEPT !.fractalvolumes[n].fractalsurfaces = Append(@, surface)]]

----------------------------------------------------------------------------
(* gprMax/updates.py: CUDAUpdates.__init__ and the methods it calls.       *)
(* Each method is the list of its statements: the names and the attributes *)
(* of self a statement reads, in evaluation order, what it binds and what  *)
(* it does to the device.  A name is looked up in the locals of the method *)
(* and then in the module; an attribute in the instance and its class.     *)

\* names bound at module level in updates.py
UpdatesGlobals ==
    {"import_module", "logging", "sys", "config", "kernel_template_fields",
     "kernel_template_store_snapshot", "kernel_template_sources",
     "update_electric", "update_magnetic", "store_outputs",
     "gpu_initialise_rx_arrays", "gpu_get_rx_array", "Snapshot",
     "gpu_initialise_snapshot_array", "gpu_get_snapshot_array",
     "gpu_initialise_src_arrays", "timer", "log", "CPUUpdates", "CUDAUpdates"}

Builtins == {"getattr", "len", "round", "enumerate"}

ConstMem == 65536

N(name) == <<"name", name>>
A(name) == <<"self", name>>

Stmt(line, when, reads, binds, locals, eff, call) ==
    [line |-> line, when |-> when, reads |-> reads, binds |-> binds,
     locals |-> locals, eff |-> eff, call |-> call]

CUDAUpdates_init_body == <<
    Stmt(249, "always", <<N("G")>>, {"grid"}, {}, "", ""),
    Stmt(250, "always", <<>>, {"dispersive_update_a"}, {}, "", ""),
    Stmt(251, "always", <<>>, {"dispersive_update_b"}, {}, "", ""),
    Stmt(253, "always", <<>>, {}, {"drv"}, "", ""),
    Stmt(254, "always", <<>>, {}, {"SourceModule"}, "", ""),
    Stmt(255, "always", <<N("drv")>>, {}, {}, "", ""),
    Stmt(258, "always", <<N("log")>>, {}, {}, "", ""),
    Stmt(259, "always", <<N("sys")>>, {"compiler_opts"}, {}, "", ""),
    Stmt(265, "always", <<N("drv"), A("grid")>>, {"dev"}, {}, "", ""),
    Stmt(266, "always", <<N("dev")>>, {"ctx"}, {}, "ctx", ""),
    Stmt(269, "always", <<A("set_field_kernels")>>, {}, {}, "", "set_field_kernels"),
    Stmt(270, "always", <<A("set_pml_kernels")>>, {}, {}, "", "set_pml_kernels"),
    Stmt(271, "always", <<A("set_rx_kernel")>>, {}, {}, "", "set_rx_kernel"),
    Stmt(272, "always", <<A("set_src_kernels")>>, {}, {}, "", "set_src_kernels"),
    Stmt(273, "always", <<A("set_snapshot_kernel")>>, {}, {}, "", "set_snapshot_kernel") >>

CUDAUpdates_set_field_kernels_body == <<
    Stmt(279, "always", <<N("config")>>, {}, {}, "", ""),
    Stmt(280, "dispersive",
         <<N("SourceModule"), N("kernels_template_fields"), N("cudafloattype"),
           N("cudacomplextype"), A("grid"), A("compiler_opts")>>,
         {}, {"kernels_fields"}, "", ""),
    Stmt(298, "nondispersive",
         <<N("SourceModule"), N("kernels_template_fields"), N("cudafloattype"),
           N("cudacomplextype"), A("grid"), A("compiler_opts")>>,
         {}, {"kernels_fields"}, "", ""),
    Stmt(315, "always", <<N("kernels_fields")>>, {"update_electric"}, {}, "", ""),
    Stmt(316, "always", <<N("kernels_fields")>>, {"update_magnetic"}, {}, "", ""),
    Stmt(317, "always", <<A("grid")>>, {}, {}, "", ""),
    Stmt(318, "overbudget", <<N("GeneralError"), N("log"), N("human_size"), A("grid")>>,
         {}, {}, "raise GeneralError", ""),
    Stmt(319, "always", <<A("copy_mat_coeffs")>>, {}, {}, "", "copy_mat_coeffs"),
    Stmt(322, "always", <<N("config")>>, {}, {}, "", ""),
    Stmt(323, "dispersive", <<N("kernels_fields")>>, {"dispersive_update_a"}, {}, "", ""),
    Stmt(324, "dispersive", <<N("kernels_fields")>>, {"dispersive_update_b"}, {}, "", ""),
    Stmt(325, "dispersive", <<A("grid")>>, {}, {}, "dispersive", ""),
    Stmt(328, "always", <<A("grid")>>, {}, {}, "", ""),
    Stmt(329, "always", <<A("grid")>>, {}, {}, "fields", "") >>

CUDAUpdates_copy_mat_coeffs_body == <<
    Stmt(440, "always", <<N("kernels_sources")>>, {}, {"updatecoeffsE"}, "", ""),
    Stmt(441, "always", <<N("kernels_sources")>>, {}, {"updatecoeffsH"}, "", ""),
    Stmt(442, "always", <<A("drv"), N("updatecoeffsE"), A("grid")>>, {}, {}, "coeffs", ""),
    Stmt(443, "always", <<A("drv"), N("updatecoeffsH"), A("grid")>>, {}, {}, "coeffs", "") >>

CUDAUpdates_set_pml_kernels_body == <<
    Stmt(333, "always", <<A("grid")>>, {}, {}, "", ""),
    Stmt(334, "pmls", <<A("grid")>>, {}, {"pmlmodulelectric"}, "", ""),
    Stmt(335, "pmls", <<N("getattr"), N("import_module"), N("pmlmodulelectric"), A("grid")>>,
         {}, {"kernelelectricfunc"}, "", ""),
    Stmt(338, "pmls", <<A("grid")>>, {}, {"pmlmodulemagnetic"}, "", ""),
    Stmt(339, "pmls", <<N("getattr"), N("import_module"), N("pmlmodulemagnetic"), A("grid")>>,
         {}, {"kernelmagneticfunc"}, "", ""),
    Stmt(342, "pmls", <<N("SourceModule"), N("kernelelectricfunc"), N("cudafloattype"),
                        A("grid"), A("compiler_opts")>>,
         {}, {"kernels_pml_electric"}, "", ""),
    Stmt(353, "pmls", <<N("SourceModule"), N("kernelmagneticfunc"), N("cudafloattype"),
                        A("grid"), A("gridG"), A("compiler_opts")>>,
         {}, {"kernels_pml_magnetic"}, "", ""),
    Stmt(364, "pmls", <<A("copy_mat_coeffs")>>, {}, {}, "", "copy_mat_coeffs"),
    Stmt(366, "pmls", <<A("grid"), N("kernels_pml_electric"), N("kernels_pml_magnetic")>>,
         {}, {}, "pmls", "") >>

CUDAUpdates_set_rx_kernel_body == <<
    Stmt(375, "always", <<A("grid")>>, {}, {}, "", ""),
    Stmt(376, "rxs", <<N("gpu_initialise_rx_arrays"), A("grid")>>,
         {}, {"rxcoords_gpu", "rxs_gpu"}, "rxs", ""),
    Stmt(377, "rxs", <<N("SourceModule"), N("kernel_template_store_outputs"),
                       N("cudafloattype"), A("grid"), A("compiler_opts")>>,
         {}, {"kernel_store_outputs"}, "", ""),
    Stmt(387, "rxs", <<N("kernel_store_outputs")>>, {"store_outputs"}, {}, "", "") >>

CUDAUpdates_set_src_kernels_body == <<
    Stmt(393, "always", <<A("grid")>>, {}, {}, "", ""),
    Stmt(394, "srcs", <<N("SourceModule"), N("kernels_template_sources"),
                        N("cudafloattype"), A("grid"), A("compiler_opts")>>,
         {}, {"kernels_sources"}, "", ""),
    Stmt(408, "srcs", <<A("copy_mat_coeffs")>>, {}, {}, "", "copy_mat_coeffs"),
    Stmt(410, "hertzian", <<N("gpu_initialise_src_arrays"), A("grid")>>,
         {"srcinfo1_hertzian_gpu", "srcinfo2_hertzian_gpu", "srcwaves_hertzian_gpu"},
         {}, "srcs", ""),
    Stmt(411, "hertzian", <<N("kernels_sources")>>, {"update_hertzian_dipole_gpu"}, {}, "", ""),
    Stmt(413, "magnetic", <<N("gpu_initialise_src_arrays"), A("grid")>>,
         {"srcinfo1_magnetic_gpu", "srcinfo2_magnetic_gpu", "srcwaves_magnetic_gpu"},
         {}, "srcs", ""),
    Stmt(414, "magnetic", <<N("kernels_sources")>>, {"update_magnetic_dipole_gpu"}, {}, "", ""),
    Stmt(416, "voltage", <<N("gpu_initialise_src_arrays"), A("grid")>>,
         {"srcinfo1_voltage_gpu", "srcinfo2_voltage_gpu", "srcwaves_voltage_gpu"},
         {}, "srcs", ""),
    Stmt(417, "voltage", <<N("kernels_sources")>>, {"update_voltage_source_gpu"}, {}, "", "") >>

CUDAUpdates_set_snapshot_kernel_body == <<
    Stmt(423, "always", <<A("grid")>>, {}, {}, "", ""),
    Stmt(424, "snapshots", <<N("gpu_initialise_snapshot_array"), A("grid")>>,
         {"snapEx_gpu", "snapEy_gpu", "snapEz_gpu", "snapHx_gpu", "snapHy_gpu", "snapHz_gpu"},
         {}, "snapshots", ""),
    Stmt(425, "snapshots", <<N("SourceModule"), N("kernel_template_store_snapshot"),
                             N("cudafloattype"), N("Snapshot"), A("grid"), A("compiler_opts")>>,
         {}, {"kernel_store_snapshot"}, "", ""),
    Stmt(434, "snapshots", <<N("kernel_store_snapshot")>>, {"store_snapshot_gpu"}, {}, "", "") >>

CUDABody(m) ==
    CASE m = "__init__" -> CUDAUpdates_init_body
      [] m = "set_field_kernels" -> CUDAUpdates_set_field_kernels_body
      [] m = "copy_mat_coeffs" -> CUDAUpdates_copy_mat_coeffs_body
      [] m = "set_pml_kernels" -> CUDAUpdates_set_pml_kernels_body
      [] m = "set_rx_kernel" -> CUDAUpdates_set_rx_kernel_body
      [] m = "set_src_kernels" -> CUDAUpdates_set_src_kernels_body
      [] m = "set_snapshot_kernel" -> CUDAUpdates_set_snapshot_kernel_body

\* the conditions that guard statements
Cond(when, g, cfg) ==
    CASE when = "always" -> TRUE
      [] when = "dispersive" -> cfg.maxpoles > 0
      [] when = "nondispersive" -> ~(cfg.maxpoles > 0)
      [] when = "overbudget" -> g.nbytesE + g.nbytesH > g.gpu.constmem
      [] when = "pmls" -> g.pmls # 0
      [] when = "rxs" -> g.rxs # <<>>
      [] when = "srcs" -> g.voltagesources \o g.hertziandipoles \o g.magneticdipoles # <<>>
      [] when = "hertzian" -> g.voltagesources \o g.hertziandipoles \o g.magneticdipoles # <<>>
                              /\ g.hertziandipoles # <<>>
      [] when = "magnetic" -> g.voltagesources \o g.hertziandipoles \o g.magneticdipoles # <<>>
                              /\ g.magneticdipoles # <<>>
      [] when = "voltage" -> g.voltagesources \o g.hertziandipoles \o g.magneticdipoles # <<>>
                             /\ g.voltagesources # <<>>
      [] when = "snapshots" -> g.snapshots # <<>>

\* the first read of a statement that fails, as the exception it raises
RECURSIVE ReadError(_, _, _)
ReadError(reads, st, line) ==
    IF reads = <<>> THEN NoError
    ELSE LET r == Head(reads)
         IN  IF r[1] = "name" /\ r[2] \notin st.locals \cup UpdatesGlobals \cup Builtins
             THEN Raise("NameError", line)
             ELSE IF r[1] = "self" /\ r[2] \notin st.attrs \cup CUDAUpdates_methods
             THEN Raise("AttributeError", line)
             ELSE ReadError(Tail(reads), st, line)

NoDevice == [ctx |-> FALSE, coeffs |-> 0, fields |-> FALSE, dispersive |-> FALSE,
             pmls |-> FALSE, rxs |-> FALSE, srcs |-> FALSE, snapshots |-> FALSE]

Effect(eff, d) ==
    CASE eff = "" -> d
      [] eff = "ctx" -> [d EXCEPT !.ctx = TRUE]
      [] eff = "coeffs" -> [d EXCEPT !.coeffs = @ + 1]
      [] eff = "fields" -> [d EXCEPT !.fields = TRUE]
      [] eff = "dispersive" -> [d EXCEPT !.dispersive = TRUE]
      [] eff = "pmls" -> [d EXCEPT !.pmls = TRUE]
      [] eff = "rxs" -> [d EXCEPT !.rxs = TRUE]
      [] eff = "srcs" -> [d EXCEPT !.srcs = TRUE]
      [] eff = "snapshots" -> [d EXCEPT !.snapshots = TRUE]

\* run method m from its statement i on
RECURSIVE Exec(_, _, _, _, _)
Exec(m, i, st, g, cfg) ==
    IF i > Len(CUDABody(m)) \/ st.err # NoError THEN st
    ELSE LET s == CUDABody(m)[i]
             bad == ReadError(s.reads, st, s.line)
             st1 == [st EXCEPT !.attrs = @ \cup s.binds,
                               !.locals = @ \cup s.locals,
                               !.dev = Effect(IF s.eff = "raise GeneralError" THEN "" ELSE s.eff, @)]
             st2 == IF s.call = "" THEN st1
                    ELSE [Exec(s.call, 1, [st1 EXCEPT !.locals = {"self"}], g, cfg)
                            EXCEPT !.locals = st1.locals]
         IN  IF ~Cond(s.when, g, cfg) THEN Exec(m, i + 1, st, g, cfg)
             ELSE IF bad # NoError THEN [st EXCEPT !.err = bad]
             ELSE IF s.eff = "raise GeneralError"
                  THEN [st EXCEPT !.err = Raise("GeneralError", s.line)]
             ELSE Exec(m, i + 1, st2, g, cfg)

CUDAUpdates_init(G, cfg) ==
    Exec("__init__", 1,
         [attrs |-> {}, locals |-> {"self", "G"}, dev |-> NoDevice, err |-> NoError],
         G, cfg)

----------------------------------------------------------------------------
(* The solver: builds the backend for the grid and drives it through the   *)
(* phases of every iteration                                               *)

PhaseOrder ==
    << "update_magnetic", "update_magnetic_pml", "update_magnetic_sources",
       "update_electric_a", "update_electric_pml", "update_electric_sources",
       "update_electric_b", "store_outputs", "store_snapshots" >>

NewGrid(T, tw, gpu, nbH, npml) ==
    [iterations |-> T, timewindow |-> tw, dt |-> 1, gpu |-> gpu,
     nbytesE |-> ConstMem \div 2, nbytesH |-> nbH, pmls |-> npml,
     iteration |-> 0,
     voltagesources |-> <<>>, hertziandipoles |-> <<>>, magneticdipoles |-> <<>>,
     transmissionlines |-> <<>>, rxs |-> <<>>, snapshots |-> <<>>,
     materials |-> BuiltinMaterials, cfs |-> <<>>, snapsgpu2cpu |-> FALSE,
     writes |-> <<>>, rxidx |-> <<>>,
     nx |-> MaxCells, ny |-> MaxCells, nz |-> MaxCells, dx |-> 1, dy |-> 1, dz |-> 1,
     fractalvolumes |-> <<>>]

Init ==
    /\ phase = "build"
    /\ \E T \in Iterations, npml \in 0..MaxPmls :
       \E tw \in TimeWindows(T) :
          \/ grid = NewGrid(T, tw, NoGpu, ConstMem \div 2 - 4, npml)
          \/ \E nbH \in {ConstMem \div 2 - 4, ConstMem \div 2, ConstMem \div 2 + 4},
                policy \in BOOLEAN :
                grid = [NewGrid(T, tw, [present |-> TRUE, constmem |-> ConstMem], nbH, npml)
                          EXCEPT !.snapsgpu2cpu = policy]
    /\ config \in [maxpoles : 0..MaxPoles, precision : {"single"},
                   dispersivedtype : {"real"}]
    /\ updates = NoUpdates
    /\ device = NoDevice
    /\ solver = [k |-> 0, pc |-> 1]
    /\ calls = <<>>
    /\ error = NoError
    /\ MaterialUser = [maxpoles |-> 0]
    /\ work = NoWork
    /\ PMLCFS = [count |-> 0]

Command(r) ==
    /\ grid' = r.g
    /\ error' = r.err
    /\ UNCHANGED <<work, MaterialUser, PMLCFS, phase, config, updates, device, solver, calls>>

CanBuild == phase = "build" /\ NObjs(grid) < MaxObjs

VoltageSourceCmd == CanBuild /\ \E kw \in SourceKw : Command(VoltageSource_create(kw, grid))
HertzianDipoleCmd == CanBuild /\ \E kw \in SourceKw : Command(HertzianDipole_create(kw, grid))
MagneticDipoleCmd == CanBuild /\ \E kw \in SourceKw : Command(MagneticDipole_create(kw, grid))
TransmissionLineCmd == CanBuild /\ \E kw \in SourceKw : Command(TransmissionLine_create(kw, grid))
RxCmd == CanBuild /\ \E kw \in RxKw : Command(Rx_create(kw, grid))
SnapshotCmd == CanBuild /\ \E kw \in SnapshotKw : Command(Snapshot_create(kw, grid))

\* create_solver: the backend is chosen once, from grid.gpu
CreateCPUUpdates ==
    /\ phase = "build" /\ ~grid.gpu.present
    /\ updates' = CPUUpdates_init(grid)
    /\ phase' = "created"
    /\ error' = NoError
    /\ UNCHANGED <<work, MaterialUser, PMLCFS, grid, config, device, solver, calls>>

SetDispersiveUpdates ==
    /\ phase = "created" /\ updates.class = "CPUUpdates"
    /\ updates' = set_dispersive_updates(updates, adapt_dispersive_config(config))
    /\ phase' = "ready"
    /\ UNCHANGED <<work, MaterialUser, PMLCFS, grid, config, device, solver, calls, error>>

CreateCUDAUpdates ==
    /\ phase = "build" /\ grid.gpu.present
    /\ LET st == CUDAUpdates_init(grid, config)
       IN  /\ device' = st.dev
           /\ error' = st.err
           /\ updates' = IF st.err = NoError
                         THEN [NoUpdates EXCEPT !.class = "CUDAUpdates", !.attrs = st.attrs]
                         ELSE NoUpdates
           /\ phase' = IF st.err = NoError THEN "ready" ELSE "aborted"
    /\ UNCHANGED <<work, MaterialUser, PMLCFS, grid, config, solver, calls>>

Dispatch(name) ==
    /\ updates.class = "CPUUpdates"
    /\ Resolve(updates, name) = "method"

TimeStart ==
    /\ phase = "ready" /\ Dispatch("time_start")
    /\ updates' = [updates EXCEPT !.attrs = @ \cup {"timestart"}]
    /\ phase' = "run"
    /\ solver' = [k |-> 0, pc |-> 1]
    /\ UNCHANGED <<work, MaterialUser, PMLCFS, grid, config, device, calls, error>>

\* the solver moves to the next phase, or to the next iteration
Step(name, g) ==
    /\ grid' = g
    /\ calls' = IF solver.pc = 1 THEN <<name>> ELSE Append(calls, name)
    /\ solver' = IF solver.pc < Len(PhaseOrder)
                 THEN [solver EXCEPT !.pc = @ + 1]
                 ELSE [k |-> solver.k + 1, pc |-> 1]
    /\ phase' = IF solver.pc = Len(PhaseOrder) /\ solver.k + 1 = grid.iterations
                THEN "solved" ELSE "run"
    /\ UNCHANGED <<work, MaterialUser, PMLCFS, config, updates, device, error>>

Abort(name, err) ==
    /\ phase' = "aborted"
    /\ error' = err
    /\ calls' = IF solver.pc = 1 THEN <<name>> ELSE Append(calls, name)
    /\ UNCHANGED <<work, MaterialUser, PMLCFS, grid, config, updates, device, solver>>

At(name) == phase = "run" /\ PhaseOrder[solver.pc] = name /\ Dispatch(name)

UpdateMagnetic ==
    At("update_magnetic") /\ Step("update_magnetic", CPUUpdates_update_magnetic(grid))

UpdateMagneticPml ==
    At("update_magnetic_pml") /\ Step("update_magnetic_pml", CPUUpdates_update_magnetic_pml(grid))

UpdateMagneticSources ==
    At("update_magnetic_sources")
    /\ Step("update_magnetic_sources", CPUUpdates_update_magnetic_sources(grid))

UpdateElectricA ==
    /\ At("update_electric_a")
    /\ IF CPUUpdates_electric_a_function(updates, config) = NoFunc
       THEN Abort("update_electric_a", Raise("TypeError", 118))
       ELSE Step("update_electric_a", CPUUpdates_update_electric_a(grid, updates, config))

UpdateElectricPml ==
    At("update_electric_pml") /\ Step("update_electric_pml", CPUUpdates_update_electric_pml(grid))

UpdateElectricSources ==
    At("update_electric_sources")
    /\ Step("update_electric_sources", CPUUpdates_update_electric_sources(grid))

UpdateElectricB ==
    /\ At("update_electric_b")
    /\ IF config.maxpoles # 0 /\ CPUUpdates_electric_b_function(updates, config) = NoFunc
       THEN Abort("update_electric_b", Raise("TypeError", 163))
       ELSE Step("update_electric_b", CPUUpdates_update_electric_b(grid, updates, config))

StoreOutputs ==
    At("store_outputs") /\ Step("store_outputs", CPUUpdates_store_outputs(grid))

StoreSnapshots ==
    At("store_snapshots") /\ Step("store_snapshots", CPUUpdates_store_snapshots(grid, solver.k))

CalculateTsolve ==
    /\ phase = "solved" /\ Dispatch("calculate_tsolve")
    /\ "timestart" \in updates.attrs
    /\ phase' = "timed"
    /\ UNCHANGED <<work, MaterialUser, PMLCFS, grid, config, updates, device, solver, calls, error>>

Finalise ==
    /\ phase = "timed" /\ Dispatch("finalise")
    /\ phase' = "finalised"
    /\ UNCHANGED <<work, MaterialUser, PMLCFS, grid, config, updates, device, solver, calls, error>>

Cleanup ==
    /\ phase = "finalised" /\ Dispatch("cleanup")
    /\ phase' = "clean"
    /\ UNCHANGED <<work, MaterialUser, PMLCFS, grid, config, updates, device, solver, calls, error>>

Next ==
    \/ VoltageSourceCmd \/ HertzianDipoleCmd \/ MagneticDipoleCmd
    \/ TransmissionLineCmd \/ RxCmd \/ SnapshotCmd
    \/ CreateCPUUpdates \/ SetDispersiveUpdates \/ CreateCUDAUpdates
    \/ TimeStart
    \/ UpdateMagnetic \/ UpdateMagneticPml \/ UpdateMagneticSources
    \/ UpdateElectricA \/ UpdateElectricPml \/ UpdateElectricSources
    \/ UpdateElectricB \/ StoreOutputs \/ StoreSnapshots
    \/ CalculateTsolve \/ Finalise \/ Cleanup

Spec == Init /\ [][Next]_vars

----------------------------------------------------------------------------
(* Building models: the commands of one model after the other, and one     *)
(* model after the other in the same process                               *)

BuildSourceKw ==
    SourceKw
    \cup { Kw(2, "x", TRUE, 50, [keys |-> {}, start |-> 0, stop |-> 0]),
           Kw(1, "y", TRUE, 50, [keys |-> {}, start |-> 0, stop |-> 0]),
           Kw(1, "x", TRUE, 50,
              [keys |-> {"start", "stop"}, start |-> MaxIter + 1, stop |-> MaxIter + 2]) }

RECURSIVE PoleEntries(_)
PoleEntries(ms) == IF ms = <<>> THEN 0 ELSE Len(Head(ms).tau) + PoleEntries(Tail(ms))

BuildSize(g) ==
    NObjs(g) + Len(g.materials) - Len(BuiltinMaterials) + Len(g.cfs) + PoleEntries(g.materials)

CanAdd == phase = "build" /\ BuildSize(grid) < MaxObjs

\* the grid of the next model: the same parameters, nothing built yet
Fresh(g) == NewGrid(g.iterations, g.timewindow, g.gpu, g.nbytesH, g.pmls)

\* constructing a PMLCFS object and creating its parameters on the grid
PMLCFS_command(kw, g, cls) ==
    LET i == PMLCFS_init(cls)
    IN  IF i.err # NoError THEN [err |-> i.err, g |-> g, cls |-> i.cls]
        ELSE [err |-> PMLCFS_create(kw, g).err, g |-> PMLCFS_create(kw, g).g, cls |-> i.cls]

ClassCommand(r) ==
    /\ grid' = r.g
    /\ error' = r.err
    /\ UNCHANGED <<work, phase, config, updates, device, solver, calls>>

AddVoltageSource ==
    /\ CanAdd /\ \E kw \in BuildSourceKw : ClassCommand(VoltageSource_create(kw, grid))
    /\ UNCHANGED <<MaterialUser, PMLCFS>>

AddHertzianDipole ==
    /\ CanAdd /\ \E kw \in BuildSourceKw : ClassCommand(HertzianDipole_create(kw, grid))
    /\ UNCHANGED <<MaterialUser, PMLCFS>>

AddMagneticDipole ==
    /\ CanAdd /\ \E kw \in BuildSourceKw : ClassCommand(MagneticDipole_create(kw, grid))
    /\ UNCHANGED <<MaterialUser, PMLCFS>>

AddTransmissionLine ==
    /\ CanAdd /\ \E kw \in BuildSourceKw : ClassCommand(TransmissionLine_create(kw, grid))
    /\ UNCHANGED <<MaterialUser, PMLCFS>>

MaterialCmd ==
    /\ CanAdd /\ \E kw \in MaterialKw : ClassCommand(Material_create(kw, grid))
    /\ UNCHANGED <<MaterialUser, PMLCFS>>

DispersionCommand(r) ==
    /\ ClassCommand(r)
    /\ MaterialUser' = [MaterialUser EXCEPT !.maxpoles = r.maxpoles]
    /\ UNCHANGED PMLCFS

AddDebyeDispersionCmd ==
    CanAdd /\ \E kw \in DispersionKw :
       DispersionCommand(AddDebyeDispersion_create(kw, grid, MaterialUser.maxpoles))

AddLorentzDispersionCmd ==
    CanAdd /\ \E kw \in DispersionKw :
       DispersionCommand(AddLorentzDispersion_create(kw, grid, MaterialUser.maxpoles))

AddDrudeDispersionCmd ==
    CanAdd /\ \E kw \in DispersionKw :
       DispersionCommand(AddDrudeDispersion_create(kw, grid, MaterialUser.maxpoles))

PMLCFSCmd ==
    /\ CanAdd /\ PMLCFS.count <= MaxObjs
    /\ \E kw \in PMLCFSKw :
          /\ ClassCommand(PMLCFS_command(kw, grid, PMLCFS))
          /\ PMLCFS' = PMLCFS_command(kw, grid, PMLCFS).cls
    /\ UNCHANGED MaterialUser

\* the next model of the process starts from a new grid
NewModel ==
    /\ phase = "build"
    /\ grid' = Fresh(grid)
    /\ error' = NoError
    /\ UNCHANGED <<work, MaterialUser, PMLCFS, phase, config, updates, device, solver, calls>>

\* a process that has built nothing yet
BuildInit ==
    /\ Init /\ config.maxpoles = 0
    /\ grid.pmls = 0 /\ grid.nbytesH < ConstMem \div 2

\* the sources of a model
SourceNext ==
    \/ AddVoltageSource \/ AddHertzianDipole \/ AddMagneticDipole \/ AddTransmissionLine

SourceSpec == BuildInit /\ [][SourceNext]_vars

\* the materials and PML parameters of the models of a process
BuildNext ==
    \/ MaterialCmd \/ AddDebyeDispersionCmd \/ AddLorentzDispersionCmd
    \/ AddDrudeDispersionCmd \/ PMLCFSCmd \/ NewModel

\* one model at a time, built for the host
ModelInit == BuildInit /\ grid = NewGrid(MaxIter, MaxIter, NoGpu, ConstMem \div 2 - 4, 0)

BuildSpec == ModelInit /\ [][BuildNext]_vars

\* the fractal surfaces of all the boxes of the grid
RECURSIVE SurfaceCount(_)
SurfaceCount(volumes) ==
    IF volumes = <<>> THEN 0
    ELSE Len(Head(volumes).fractalsurfaces) + SurfaceCount(Tail(volumes))

\* the fractal box command: the next box of the model joins the grid
AddFractalBoxCmd ==
    /\ phase = "build" /\ Len(grid.fractalvolumes) < Len(FractalVolumes)
    /\ ClassCommand([err |-> NoError,
                     g |-> [grid EXCEPT !.fractalvolumes =
                               Append(@, FractalVolumes[Len(grid.fractalvolumes) + 1])]])
    /\ UNCHANGED <<MaterialUser, PMLCFS>>

AddSurfaceRoughnessCmd ==
    /\ phase = "build" /\ SurfaceCount(grid.fractalvolumes) < MaxSurfaces
    /\ \E kw \in SurfaceKw : ClassCommand(AddSurfaceRoughness_create(kw, grid))
    /\ UNCHANGED <<MaterialUser, PMLCFS>>

\* the fractal boxes of a model and the surfaces added to them
SurfaceNext == AddFractalBoxCmd \/ AddSurfaceRoughnessCmd

SurfaceSpec == ModelInit /\ [][SurfaceNext]_vars


----------------------------------------------------------------------------
\* one iteration of the solver on the host backend, and a whole run
SolverIteration(g, u, cfg, k) ==
    CPUUpdates_store_snapshots(
      CPUUpdates_store_outputs(
        CPUUpdates_update_electric_b(
          CPUUpdates_update_electric_sources(
            CPUUpdates_update_electric_pml(
              CPUUpdates_update_electric_a(
                CPUUpdates_update_magnetic_sources(
                  CPUUpdates_update_magnetic_pml(
                    CPUUpdates_update_magnetic(g))), u, cfg))), u, cfg)), k)

RECURSIVE HostSolve(_, _, _, _)
HostSolve(g, u, cfg, k) ==
    IF k >= g.iterations THEN g
    ELSE HostSolve(SolverIteration(g, u, cfg, k), u, cfg, k + 1)

HostUpdates(g, cfg) ==
    set_dispersive_updates(CPUUpdates_init(g), adapt_dispersive_config(cfg))

----------------------------------------------------------------------------
(* Reading the write log                                                   *)

SourceKinds == {"VoltageSource", "TransmissionLine", "HertzianDipole", "MagneticDipole"}

IsDispersive(w, half) == w.who = "" /\ Len(w.op) = 5 /\ w.op[3] = half

\* the phase of an iteration a write belongs to, 0 if it belongs to none
WRank(w) ==
    IF w.who = "" /\ w.op = <<"update_magnetic">> THEN 1
    ELSE IF w.who = "pml" /\ w.op = <<"update_magnetic">> THEN 2
    ELSE IF w.who \in SourceKinds /\ w.op = <<"update_magnetic">> THEN 3
    ELSE IF w.who = "" /\ w.op = <<"update_electric">> THEN 4
    ELSE IF IsDispersive(w, "A") THEN 4
    ELSE IF w.who = "pml" /\ w.op = <<"update_electric">> THEN 5
    ELSE IF w.who \in SourceKinds /\ w.op = <<"update_electric">> THEN 6
    ELSE IF IsDispersive(w, "B") THEN 7
    ELSE 0

WritesOfRank(r) == {i \in DOMAIN grid.writes : WRank(grid.writes[i]) = r}

\* the iteration (from 0) during which write i was made
IterOf(i) == Cardinality({j \in WritesOfRank(1) : j <= i}) - 1

\* the length of the log when iteration n (from 1) was complete
EndOfIter(n) ==
    LET later == {j \in WritesOfRank(1) : IterOf(j) = n}
    IN  IF later = {} THEN Len(grid.writes)
        ELSE (CHOOSE j \in later : TRUE) - 1

SourceOf(w) ==
    CASE w.who = "VoltageSource" -> grid.voltagesources[w.idx]
      [] w.who = "TransmissionLine" -> grid.transmissionlines[w.idx]
      [] w.who = "HertzianDipole" -> grid.hertziandipoles[w.idx]
      [] w.who = "MagneticDipole" -> grid.magneticdipoles[w.idx]

Running == phase = "run"
Solved == phase \in {"solved", "timed", "finalised", "clean"}

\* iterations whose phase number p (1..9) is complete
DonePhases(p) ==
    IF Running THEN solver.k + (IF solver.pc > p THEN 1 ELSE 0)
    ELSE IF Solved THEN grid.iterations ELSE 0

Overbudget(g) == g.nbytesE + g.nbytesH > g.gpu.constmem

----------------------------------------------------------------------------
C2_Counter ==
    /\ grid.iteration = DonePhases(6)
    /\ Solved => grid.iteration = grid.iterations

C2_Witness ==
    /\ phase = "solved" /\ grid.iterations = MaxIter /\ grid.iteration = MaxIter
    /\ grid.voltagesources = <<>> /\ grid.hertziandipoles = <<>>
    /\ grid.magneticdipoles = <<>> /\ grid.transmissionlines = <<>>

(* C3: a source writes to the field in iteration k exactly when            *)
(* start <= k*dt < stop, and the magnetic and the electric source phase of *)
(* iteration k both pass k, the counter before its increment.              *)
C3_TimeWindow ==
    /\ \A i \in DOMAIN grid.writes :
          LET w == grid.writes[i]
          IN  w.who \in SourceKinds =>
                 /\ w.it = IterOf(i)
                 /\ SourceOf(w).start <= w.it * grid.dt
                 /\ w.it * grid.dt < SourceOf(w).stop
    /\ \A k \in 0..(DonePhases(6) - 1) :
          /\ \A n \in DOMAIN grid.voltagesources :
                Active(grid.voltagesources[n], k, grid) =>
                   Cardinality({i \in DOMAIN grid.writes : grid.writes[i] =
                       W(<<"update_electric">>, "VoltageSource", n, k)}) = 1
          /\ \A n \in DOMAIN grid.hertziandipoles :
                Active(grid.hertziandipoles[n], k, grid) =>
                   Cardinality({i \in DOMAIN grid.writes : grid.writes[i] =
                       W(<<"update_electric">>, "HertzianDipole", n, k)}) = 1
    /\ \A k \in 0..(DonePhases(3) - 1) :
          \A n \in DOMAIN grid.magneticdipoles :
             Active(grid.magneticdipoles[n], k, grid) =>
                Cardinality({i \in DOMAIN grid.writes : grid.writes[i] =
                    W(<<"update_magnetic">>, "MagneticDipole", n, k)}) = 1

C3_Witness ==
    /\ phase = "solved" /\ grid.iterations = 6
    /\ \E n \in DOMAIN grid.hertziandipoles :
          /\ grid.hertziandipoles[n].start = 2 /\ grid.hertziandipoles[n].stop = 5
          /\ {grid.writes[i].it : i \in {j \in DOMAIN grid.writes :
                 /\ grid.writes[j].who = "HertzianDipole"
                 /\ grid.writes[j].idx = n}} = {2, 3, 4}

C5_Claim ==
    /\ \A i \in DOMAIN grid.rxidx : grid.rxidx[i] \in 0..(grid.iterations - 1)
    /\ \A r \in DOMAIN grid.rxs : \A f \in DOMAIN grid.rxs[r].outputs :
          Len(grid.rxs[r].outputs[f]) = grid.iterations
    /\ (Solved /\ grid.rxs # <<>>) =>
          \A k \in 0..(grid.iterations - 1) :
             Cardinality({i \in DOMAIN grid.rxidx : grid.rxidx[i] = k}) = 1

(* C6: within the electric source injection of an iteration the writes of  *)
(* voltage sources come first, then those of transmission lines, then      *)
(* those of Hertzian dipoles, each kind in list order.                     *)
KindRank(who) ==
    CASE who = "VoltageSource" -> 1
      [] who = "TransmissionLine" -> 2
      [] who = "HertzianDipole" -> 3
      [] OTHER -> 0

C6_SourceOrder ==
    \A i, j \in WritesOfRank(6) :
       (i < j /\ IterOf(i) = IterOf(j)) =>
          \/ KindRank(grid.writes[i].who) < KindRank(grid.writes[j].who)
          \/ /\ grid.writes[i].who = grid.writes[j].who
             /\ grid.writes[i].idx < grid.writes[j].idx

C6_Witness ==
    \E i, j \in WritesOfRank(6) :
       /\ i < j /\ IterOf(i) = IterOf(j)
       /\ grid.writes[i].who = "VoltageSource"
       /\ grid.writes[j].who = "HertzianDipole"

(* C7: phase A of every iteration makes exactly one electric update, the   *)
(* standard one when maxpoles is 0 and the first half of the dispersive    *)
(* one otherwise; phase B runs the second half exactly when the first half *)
(* ran, after the electric PML and sources; with maxpoles 0 it writes      *)
(* nothing.                                                                *)
C7_TwoPhase ==
    LET std == {i \in DOMAIN grid.writes :
                   grid.writes[i].who = "" /\ grid.writes[i].op = <<"update_electric">>}
        dispA == {i \in DOMAIN grid.writes : IsDispersive(grid.writes[i], "A")}
        dispB == {i \in DOMAIN grid.writes : IsDispersive(grid.writes[i], "B")}
    IN  /\ Cardinality(std) = IF config.maxpoles = 0 THEN DonePhases(4) ELSE 0
        /\ Cardinality(dispA) = IF config.maxpoles = 0 THEN 0 ELSE DonePhases(4)
        /\ Cardinality(dispB) = IF config.maxpoles = 0 THEN 0 ELSE DonePhases(7)
        /\ \A b \in dispB : \E a \in dispA :
              /\ a < b /\ IterOf(a) = IterOf(b)
              /\ \A i \in (a + 1)..(b - 1) : WRank(grid.writes[i]) \in {5, 6}
        /\ \A i \in WritesOfRank(5) \cup WritesOfRank(6) :
              \A b \in dispB : IterOf(i) = IterOf(b) => i < b

C7_Witness ==
    /\ phase = "solved" /\ config.maxpoles > 0 /\ grid.iterations = MaxIter
    /\ grid.pmls > 0 /\ WritesOfRank(6) # {}
    /\ Cardinality(WritesOfRank(7)) = MaxIter

(* C8: when the coefficient tables exceed the constant memory of the       *)
(* device, CUDAUpdates.__init__ fails with the capacity error before any   *)
(* coefficient is copied, before any array is placed on the device and     *)
(* before any iteration, and leaves the grid as it was.                    *)
C8_Claim ==
    (grid.gpu.present /\ Overbudget(grid) /\ phase # "build") =>
       /\ phase = "aborted"
       /\ error.type = "GeneralError"
       /\ device.coeffs = 0 /\ ~device.fields /\ ~device.dispersive
       /\ grid.iteration = 0 /\ grid.writes = <<>>

(* C9: once its creation has ended (on tables that fit the device), the    *)
(* backend chosen for the grid exists and each of the nine operations and  *)
(* the four lifecycle hooks resolves to the method of its class.           *)
BackendOperations ==
    Range(PhaseOrder) \cup {"time_start", "calculate_tsolve", "finalise", "cleanup"}

C9_Claim ==
    (phase \notin {"build", "created"} /\ ~(grid.gpu.present /\ Overbudget(grid))) =>
       /\ updates.class = IF grid.gpu.present THEN "CUDAUpdates" ELSE "CPUUpdates"
       /\ \A name \in BackendOperations : Resolve(updates, name) = "method"

(* C10: on identical inputs (tables that fit the device) a run on the      *)
(* accelerator ends with the receiver time series the host computes.       *)
RxSeries(g) == [r \in DOMAIN g.rxs |-> g.rxs[r].outputs]

C10_Claim ==
    (grid.gpu.present /\ ~Overbudget(grid) /\ phase \in {"aborted", "clean"}) =>
       RxSeries(grid) = RxSeries(HostSolve(grid, HostUpdates(grid, config), config, 0))

(* C11: a model built again in the same process gets the outcome of the    *)
(* first build for every command: when a new model starts, each material,  *)
(* dispersion and PML CFS command is accepted or rejected, and changes the *)
(* grid, exactly as it would in a process that has built nothing before.   *)
BuildOutcomes(g, mu, cls) ==
    [material |-> [kw \in MaterialKw |-> Material_create(kw, g)],
     debye |-> [kw \in DispersionKw |->
                   [err |-> AddDebyeDispersion_create(kw, g, mu.maxpoles).err,
                    g |-> AddDebyeDispersion_create(kw, g, mu.maxpoles).g]],
     pmlcfs |-> [kw \in PMLCFSKw |->
                   [err |-> PMLCFS_command(kw, g, cls).err,
                    g |-> PMLCFS_command(kw, g, cls).g]]]

C11_Claim ==
    [][NewModel => BuildOutcomes(grid', MaterialUser', PMLCFS')
                   = BuildOutcomes(grid', [maxpoles |-> 0], [count |-> 0])]_vars

(* C13: in a model the creation commands have accepted, no two sources     *)
(* that one injection phase applies in the same iteration target the same  *)
(* field component (polarisation) of the same cell, so the work items of a *)
(* phase, one per source, never write the same location.                   *)
ElectricSources(g) ==
    Tagged(g.voltagesources, "VoltageSource") \o Tagged(g.transmissionlines, "TransmissionLine")
    \o Tagged(g.hertziandipoles, "HertzianDipole")

MagneticSources(g) ==
    Tagged(g.transmissionlines, "TransmissionLine") \o Tagged(g.magneticdipoles, "MagneticDipole")

Target(g, s) ==
    LET o == CASE s.kind = "VoltageSource" -> g.voltagesources[s.idx]
               [] s.kind = "TransmissionLine" -> g.transmissionlines[s.idx]
               [] s.kind = "HertzianDipole" -> g.hertziandipoles[s.idx]
               [] s.kind = "MagneticDipole" -> g.magneticdipoles[s.idx]
    IN  <<o.coord, o.polarisation>>

DisjointTargets(g, list) ==
    \A i, j \in DOMAIN list :
       (i # j /\ \E k \in 0..(g.iterations - 1) :
                    Active(list[i], k, g) /\ Active(list[j], k, g))
          => Target(g, list[i]) # Target(g, list[j])

C13_Claim ==
    /\ DisjointTargets(grid, ElectricSources(grid))
    /\ DisjointTargets(grid, MagneticSources(grid))

----------------------------------------------------------------------------
(* The injection phases of one iteration at the grain of their work items, *)
(* one per source.  A work item reads the component it targets and writes  *)
(* it back with its forcing term added; the items of a phase run in any    *)
(* order and interleaving, and a phase begins when every item of the phase *)
(* before it has completed.                                                *)

InjectionPhases == <<"update_magnetic_sources", "update_electric_sources">>

\* the sources a phase visits, and the field it updates
WorkItems(g, n) == IF n = 1 THEN MagneticSources(g)
                   ELSE IF n = 2 THEN ElectricSources(g) ELSE <<>>
WorkField(n) == IF n = 1 THEN "H" ELSE "E"

WorkTarget(g, n, i) ==
    <<WorkField(n), Target(g, WorkItems(g, n)[i])[1], Target(g, WorkItems(g, n)[i])[2]>>

\* the forcing term of a source in the first iteration: nothing when the
\* source is not active
Forcing(g, n, i) == IF Active(WorkItems(g, n)[i], 0, g) THEN i ELSE 0

AllDone(w) == \A i \in DOMAIN w.pc : w.pc[i] = "done"

BeginPhase ==
    /\ phase \in {"build", "inject"}
    /\ work.n < Len(InjectionPhases) /\ AllDone(work)
    /\ phase' = "inject"
    /\ work' = [n |-> work.n + 1,
                pc |-> [i \in DOMAIN WorkItems(grid, work.n + 1) |-> "read"],
                local |-> [i \in DOMAIN WorkItems(grid, work.n + 1) |-> 0],
                field |-> work.field, start |-> work.field]
    /\ UNCHANGED <<grid, config, updates, device, solver, calls, error, MaterialUser, PMLCFS>>

ItemRead ==
    /\ phase = "inject"
    /\ \E i \in DOMAIN work.pc :
          /\ work.pc[i] = "read"
          /\ work' = [work EXCEPT !.pc[i] = "write",
                                  !.local[i] = work.field[WorkTarget(grid, work.n, i)]]
    /\ UNCHANGED <<phase, grid, config, updates, device, solver, calls, error,
                   MaterialUser, PMLCFS>>

ItemWrite ==
    /\ phase = "inject"
    /\ \E i \in DOMAIN work.pc :
          /\ work.pc[i] = "write"
          /\ work' = [work EXCEPT !.pc[i] = "done",
                                  !.field[WorkTarget(grid, work.n, i)] =
                                      work.local[i] + Forcing(grid, work.n, i)]
    /\ UNCHANGED <<phase, grid, config, updates, device, solver, calls, error,
                   MaterialUser, PMLCFS>>

\* the same phase with its sources applied one after the other
RECURSIVE InTurn(_, _, _, _)
InTurn(field, g, n, i) ==
    IF i > Len(WorkItems(g, n)) THEN field
    ELSE InTurn([field EXCEPT ![WorkTarget(g, n, i)] = @ + Forcing(g, n, i)], g, n, i + 1)

WorkNext ==
    \/ AddVoltageSource \/ AddHertzianDipole \/ AddMagneticDipole
    \/ BeginPhase \/ ItemRead \/ ItemWrite

WorkSpec == ModelInit /\ [][WorkNext]_vars

SnapshotData(g) == [i \in DOMAIN g.snapshots |->
                       [stored |-> g.snapshots[i].stored, data |-> g.snapshots[i].data]]

C15_Claim ==
    (grid.gpu.present /\ ~Overbudget(grid) /\ phase \in {"aborted", "clean"}) =>
       /\ \A i \in DOMAIN grid.snapshots : grid.snapshots[i].stored = 1
       /\ SnapshotData(grid)
            = SnapshotData(HostSolve(grid, HostUpdates(grid, config), config, 0))

(* C16: every source a voltage source, Hertzian dipole, magnetic dipole or *)
(* transmission line command has added to the grid satisfies               *)
(* 0 <= start < stop <= time window.                                       *)
AllSources(g) ==
    g.voltagesources \o g.hertziandipoles \o g.magneticdipoles \o g.transmissionlines

C16_Claim ==
    \A i \in DOMAIN AllSources(grid) :
       LET s == AllSources(grid)[i]
       IN  0 <= s.start /\ s.start < s.stop /\ s.stop <= grid.timewindow

(* C17: a snapshot command whose target iteration (given, or derived from  *)
(* the time as round(time/dt) + 1) is <= 0 or above the iteration count,   *)
(* whose time is <= 0, or whose stride is below 1 on some axis, is         *)
(* rejected with an input error and leaves the snapshot list as it was;    *)
(* so every snapshot of the list has a target in 1..T and strides >= 1.    *)
SnapshotErrorLines == {649, 653, 656, 658, 660}

InvalidSnapshot(kw, g) ==
    \/ "iterations" \notin kw.keys /\ "time" \notin kw.keys
    \/ "iterations" \notin kw.keys /\ kw.time <= 0
    \/ "iterations" \in kw.keys /\ (kw.iterations <= 0 \/ kw.iterations > g.iterations)
    \/ "iterations" \notin kw.keys /\ "time" \in kw.keys
          /\ (kw.time \div g.dt + 1 <= 0 \/ kw.time \div g.dt + 1 > g.iterations)
    \/ \E a \in 1..3 : kw.dl[a] < 1

SnapshotsValid(g) ==
    \A i \in DOMAIN g.snapshots :
       /\ g.snapshots[i].time \in 1..g.iterations
       /\ \A a \in 1..3 : g.snapshots[i].dl[a] >= 1

C17_SnapshotRejected ==
    /\ []SnapshotsValid(grid)
    /\ [](phase = "build" =>
            \A kw \in SnapshotKw :
               LET r == Snapshot_create(kw, grid)
               IN  IF InvalidSnapshot(kw, grid)
                   THEN /\ r.err.type = "CmdInputError"
                        /\ r.err.line \in SnapshotErrorLines
                        /\ r.g = grid
                   ELSE r.err = NoError /\ Len(r.g.snapshots) = Len(grid.snapshots) + 1)
    /\ [][(phase = "build" /\ phase' = "build" /\ error'.line \in SnapshotErrorLines)
            => grid' = grid]_vars

C17_Witness ==
    /\ phase = "build" /\ error.type = "CmdInputError" /\ error.line = 658
    /\ grid.snapshots # <<>>

(* C18: every material of the list has relative permittivity >= 1,         *)
(* conductivity >= 0 or infinite, relative permeability >= 1 and magnetic  *)
(* loss >= 0; identifiers are pairwise distinct and the numeric index of a *)
(* material is its position in the list (counted from 0); a Material       *)
(* command that breaks a bound or repeats an identifier is rejected and    *)
(* leaves the list as it was.                                              *)
MaterialErrorLines == {700, 703, 707, 711, 713, 715}

MaterialsValid(g) ==
    /\ \A i \in DOMAIN g.materials :
          LET m == g.materials[i]
          IN  /\ m.er >= 1 /\ (m.se >= 0 \/ m.se = Inf) /\ m.mr >= 1 /\ m.sm >= 0
              /\ m.numID = i - 1
    /\ \A i, j \in DOMAIN g.materials :
          g.materials[i].ID = g.materials[j].ID => i = j

InvalidMaterial(kw, g) ==
    \/ kw.er < 1 \/ (kw.se < 0 /\ kw.se # Inf) \/ kw.mr < 1 \/ kw.sm < 0
    \/ \E i \in DOMAIN g.materials : g.materials[i].ID = kw.id

C18_Materials ==
    /\ []MaterialsValid(grid)
    /\ [](\A kw \in MaterialKw :
            InvalidMaterial(kw, grid) =>
               /\ Material_create(kw, grid).err.type = "CmdInputError"
               /\ Material_create(kw, grid).g = grid)
    /\ [][error'.line \in MaterialErrorLines => grid' = grid]_vars

C18_Witness ==
    /\ error.line = 715 /\ Len(grid.materials) = Len(BuiltinMaterials) + 1
    /\ grid.materials[3].numID = 2 /\ grid.materials[3].se = Inf

(* C19: after any sequence of Material and dispersion commands, accepted   *)
(* or rejected, a material of infinite conductivity and a material of      *)
(* type debye, lorentz or drude is not averagable.                         *)
DispersionTypes == {"debye", "lorentz", "drude"}

C19_NotAveragable ==
    \A i \in DOMAIN grid.materials :
       LET m == grid.materials[i]
       IN  (m.se = Inf \/ m.type \in DispersionTypes) => ~m.averagable

C19_Witness ==
    /\ \E i, j \in DOMAIN grid.materials :
          /\ grid.materials[i].se = Inf /\ ~grid.materials[i].averagable
          /\ grid.materials[j].se = 0 /\ grid.materials[j].type \in DispersionTypes
          /\ grid.materials[j].poles = 2 /\ ~grid.materials[j].averagable
    /\ error.type = "CmdInputError" /\ error.line \in {781, 838, 891}

(* C20: after any sequence of dispersion commands, accepted or rejected,   *)
(* the maximum pole count of the process is at least the pole count of     *)
(* every material of the model and is the largest of them (0 when no       *)
(* material is dispersive).                                                *)
PoleCounts(g) == {g.materials[i].poles : i \in DOMAIN g.materials}

C20_Claim ==
    /\ \A p \in PoleCounts(grid) : MaterialUser.maxpoles >= p
    /\ MaterialUser.maxpoles \in PoleCounts(grid)

(* C21: every pole a dispersion command has stored on a material has       *)
(* positive parameters validated against the time step: every parameter is *)
(* > 0, a Lorentz pole has permittivity difference > 0 and both timescale  *)
(* parameters > dt, a Drude pole has its relaxation parameter > dt and a   *)
(* Debye pole has its relaxation time > dt.                                *)
AllAbove(list, v) == \A i \in DOMAIN list : list[i] > v

C21_Claim ==
    \A n \in DOMAIN grid.materials :
       LET m == grid.materials[n]
       IN  /\ AllAbove(m.deltaer, 0) /\ AllAbove(m.tau, 0) /\ AllAbove(m.alpha, 0)
           /\ m.type = "lorentz" => AllAbove(m.tau, grid.dt) /\ AllAbove(m.alpha, grid.dt)
           /\ m.type = "drude" => AllAbove(m.alpha, grid.dt)
           /\ m.type = "debye" => AllAbove(m.tau, grid.dt)

(* C22: an accepted dispersion command, also one that names a material     *)
(* more than once or is applied to a material that is dispersive already,  *)
(* leaves every material of type debye, lorentz or drude with at least one *)
(* pole and with as many entries in each of its per-pole lists as it has   *)
(* poles.                                                                  *)
PoleLists(m) ==
    CASE m.type = "debye" -> {m.deltaer, m.tau}
      [] m.type = "lorentz" -> {m.deltaer, m.tau, m.alpha}
      [] m.type = "drude" -> {m.tau, m.alpha}
      [] OTHER -> {}

PolesConsistent(g) ==
    \A n \in DOMAIN g.materials :
       LET m == g.materials[n]
       IN  m.type \in DispersionTypes =>
              /\ m.poles >= 1
              /\ \A list \in PoleLists(m) : Len(list) = m.poles

AcceptedDispersion ==
    /\ error' = NoError
    /\ Len(grid'.materials) = Len(grid.materials)
    /\ grid'.materials # grid.materials

C22_Claim ==
    [][(PolesConsistent(grid) /\ AcceptedDispersion) => PolesConsistent(grid')]_vars

(* C23: of the PMLCFS commands of a process the first and the second are   *)
(* accepted and the third and every later one is rejected with an input    *)
(* error, so a model never holds more than two CFS parameter sets.         *)
C23_Claim ==
    /\ Len(grid.cfs) <= 2
    /\ \A kw \in PMLCFSKw :
          PMLCFS_create(kw, grid).err = NoError =>
             LET r == PMLCFS_command(kw, grid, PMLCFS)
             IN  IF PMLCFS.count < 2
                 THEN r.err = NoError /\ Len(r.g.cfs) = Len(grid.cfs) + 1
                 ELSE r.err.type = "CmdInputError" /\ r.g = grid

(* C24: every CFS parameter set of the grid has kappa minimum >= 1, every   *)
(* minimum and maximum of alpha, kappa and sigma non-negative (the sigma    *)
(* maximum may be unset instead), and a scaling profile and direction of   *)
(* the allowed sets for all three parameters.                              *)
CFSPartValid(part) ==
    /\ part.scalingprofile \in CFSParameter_scalingprofiles
    /\ part.scalingdirection \in CFSParameter_scalingdirections
    /\ part.min >= 0
    /\ part.max_none \/ part.max >= 0

C24_Claim ==
    \A i \in DOMAIN grid.cfs :
       /\ CFSPartValid(grid.cfs[i].alpha) /\ ~grid.cfs[i].alpha.max_none
       /\ CFSPartValid(grid.cfs[i].kappa) /\ ~grid.cfs[i].kappa.max_none
       /\ CFSPartValid(grid.cfs[i].sigma)
       /\ grid.cfs[i].kappa.min >= 1

(* C25: an Rx command whose requested outputs (the default outputs when    *)
(* none are requested) all belong to the allowable set of the backend adds *)
(* a receiver that owns one buffer of T zeros for each requested output;   *)
(* a command that requests an output outside that set is rejected and      *)
(* leaves the receiver list as it was.                                     *)
RequestedOutputs(kw) ==
    IF "outputs" \in kw.keys THEN Range(kw.outputs) ELSE Rx_defaultoutputs

AllowableOutputs(g) ==
    IF g.gpu.present THEN Rx_gpu_allowableoutputs ELSE Rx_allowableoutputs

C25_Claim ==
    phase = "build" =>
       \A kw \in RxKw :
          LET r == Rx_create(kw, grid)
          IN  IF RequestedOutputs(kw) \subseteq AllowableOutputs(grid)
              THEN /\ r.err = NoError /\ Len(r.g.rxs) = Len(grid.rxs) + 1
                   /\ DOMAIN r.g.rxs[Len(r.g.rxs)].outputs = RequestedOutputs(kw)
                   /\ \A f \in RequestedOutputs(kw) :
                         r.g.rxs[Len(r.g.rxs)].outputs[f] = Zeros(grid.iterations)
              ELSE r.err.type = "CmdInputError" /\ r.g.rxs = grid.rxs

RunOver == Solved \/ phase = "aborted"

Visited(s, op, k) ==
    \E i \in DOMAIN grid.writes : grid.writes[i] = W(op, s.kind, s.idx, k)

RejectedChangesNothing(r) ==
    r.err.type = "CmdInputError" =>
       r.g.materials = grid.materials /\ r.maxpoles = MaterialUser.maxpoles

C28_Claim ==
    \A kw \in DispersionKw :
       /\ RejectedChangesNothing(AddDebyeDispersion_create(kw, grid, MaterialUser.maxpoles))
       /\ RejectedChangesNothing(AddLorentzDispersion_create(kw, grid, MaterialUser.maxpoles))
       /\ RejectedChangesNothing(AddDrudeDispersion_create(kw, grid, MaterialUser.maxpoles))

(* C29: a receiver the Rx command creates keeps the identifier the user    *)
(* supplied, whether or not an outputs list is supplied; it gets the       *)
(* generated identifier 'Rx(x,y,z)' only when no identifier is supplied,   *)
(* and the default outputs only when no outputs list is supplied.          *)
C29_Claim ==
    phase = "build" =>
       \A kw \in RxKw :
          LET r == Rx_create(kw, grid)
              rx == r.g.rxs[Len(r.g.rxs)]
          IN  r.err = NoError =>
                 /\ rx.ID = IF "id" \in kw.keys THEN kw.id ELSE "Rx(x,y,z)"
                 /\ "outputs" \in kw.keys => DOMAIN rx.outputs = Range(kw.outputs)
                 /\ "outputs" \notin kw.keys => DOMAIN rx.outputs = Rx_defaultoutputs

(* C30: after any sequence of AddSurfaceRoughness commands each fractal    *)
(* box holds at most one surface per face (the identifiers xminus, xplus,  *)
(* yminus, yplus, zminus, zplus are pairwise distinct within a box, so at  *)
(* most six); every accepted surface is flat along exactly one axis, lies  *)
(* on an external face of the box it names and carries the identifier of   *)
(* that face; and a rejected command leaves the surface lists unchanged.   *)
Lower(o) == <<o.xs, o.ys, o.zs>>
Upper(o) == <<o.xf, o.yf, o.zf>>

FlatAxes(surface) == {a \in 1..3 : Lower(surface)[a] = Upper(surface)[a]}

\* the surface is in the plane of a face of the box
InFacePlane(surface, volume) ==
    \A a \in FlatAxes(surface) : Lower(surface)[a] \in {Lower(volume)[a], Upper(volume)[a]}

\* the surface is within the extent of the box along the other axes
WithinFace(surface, volume) ==
    \A a \in (1..3) \ FlatAxes(surface) :
       Lower(volume)[a] <= Lower(surface)[a] /\ Upper(surface)[a] <= Upper(volume)[a]

FaceNames == <<(<<"xminus", "xplus">>), (<<"yminus", "yplus">>), (<<"zminus", "zplus">>)>>

HasFaceName(surface, volume) ==
    \A a \in FlatAxes(surface) :
       surface.surfaceID =
          FaceNames[a][IF Lower(surface)[a] = Lower(volume)[a] THEN 1 ELSE 2]

OneSurfacePerFace(volume) ==
    /\ Len(volume.fractalsurfaces) <= 6
    /\ \A i, j \in DOMAIN volume.fractalsurfaces :
          i # j => volume.fractalsurfaces[i].surfaceID # volume.fractalsurfaces[j].surfaceID

RejectedKeepsSurfaces ==
    \A kw \in SurfaceKw :
       AddSurfaceRoughness_create(kw, grid).err # NoError =>
          AddSurfaceRoughness_create(kw, grid).g.fractalvolumes = grid.fractalvolumes

C30_Claim ==
    /\ \A n \in DOMAIN grid.fractalvolumes :
          LET volume == grid.fractalvolumes[n]
          IN  /\ OneSurfacePerFace(volume)
              /\ \A i \in DOMAIN volume.fractalsurfaces :
                    LET surface == volume.fractalsurfaces[i]
                    IN  /\ Cardinality(FlatAxes(surface)) = 1
                        /\ surface.operatingonID = volume.ID
                        /\ InFacePlane(surface, volume) /\ WithinFace(surface, volume)
                        /\ HasFaceName(surface, volume)
    /\ RejectedKeepsSurfaces

====
